---------------------------- MODULE Spec2Model ----------------------------
(***************************************************************************)
(* The CSV acquisition-and-caching engine of the Portuguese energy price   *)
(* tracker: CSVDataCache, CSVDataFetcher.fetch_current_csv,                *)
(* fetch_historical_csv, save_to_local, load_from_local, parse_csv and     *)
(* get_prices of custom_components/portuguese_energy_price_tracker/        *)
(* csv_fetcher.py.                                                         *)
(*                                                                         *)
(* Text is modelled at token level: a CSV cell is a record that says what  *)
(* shape the cell's text has (opaque text, D/M/Y, [HH:MM-..., a decimal),  *)
(* and every conversion of the code (split, regex, int, float, datetime,   *)
(* round) is an operator on those shapes that fails where the code's       *)
(* conversion fails.                                                       *)
(***************************************************************************)
EXTENDS Integers, Sequences, FiniteSets, TLC

(***************************************************************************)
(* CSV text                                                                *)
(***************************************************************************)

\* Python's None
None == [k |-> "none"]
\* A cell that a short row lacks: csv.DictReader fills it with None.
NoneCell == None
\* Opaque text without "/" and without "[dd:dd-": names, blanks, garbage.
Str(s) == [k |-> "str", v |-> s]
\* Text "p1/p2/..": parts are the integers written between the slashes
\* (NotInt where the part is no integer literal).
NotInt == 0 - 1
DateCell(parts) == [k |-> "date", parts |-> parts]
\* Text in which the regex \[(\d{2}):(\d{2})- finds h and mi.
IntervalCell(h, mi) == [k |-> "interval", h |-> h, mi |-> mi]
\* Decimal text; v is its value in units of 10^-6.
Num(v) == [k |-> "num", v |-> v]
\* The text "nan": no decimal, yet float() accepts it
NaNText == [k |-> "nan"]

\* A text: an optional byte-order mark, the header line and the data lines.
\* The empty text "" has none of them.
EmptyText == [bom |-> FALSE, header |-> <<>>, rows |-> <<>>]
\* Python truthiness of a str | None: None and "" are falsy.
Truthy(content) == content # None /\ content # EmptyText
\* content.startswith('﻿') ... content = content[1:]
StripBOM(content) == IF content.bom THEN [content EXCEPT !.bom = FALSE] ELSE content

\* csv.DictReader: the first line gives the field names; a row shorter than
\* the header gets None for the missing fields.
HasField(content, name) == \E j \in 1..Len(content.header) : content.header[j] = name
FieldIndex(content, name) == CHOOSE j \in 1..Len(content.header) : content.header[j] = name
\* row[name] for a name of the header
RowItem(content, line, name) ==
    IF FieldIndex(content, name) <= Len(line) THEN line[FieldIndex(content, name)] ELSE NoneCell
\* row.get(name): None when the header has no such field
RowGet(content, line, name) ==
    IF HasField(content, name) THEN RowItem(content, line, name) ELSE NoneCell
\* row.get(name, ""): "" when the header has no such field
RowGetBlank(content, line, name) ==
    IF HasField(content, name) THEN RowItem(content, line, name) ELSE Str("")

(***************************************************************************)
(* Calendar                                                                *)
(***************************************************************************)

IsLeap(y) == (y % 4 = 0 /\ y % 100 # 0) \/ y % 400 = 0
DaysIn(y, m) ==
    IF m = 2 THEN (IF IsLeap(y) THEN 29 ELSE 28)
    ELSE IF m \in {4, 6, 9, 11} THEN 30 ELSE 31
\* datetime(year, month, day, hour, minute, 0) raises ValueError outside these ranges
ValidDatetime(y, m, d, h, mi) ==
    /\ y \in 1..9999 /\ m \in 1..12 /\ d >= 1 /\ d <= DaysIn(y, m)
    /\ h \in 0..23 /\ mi \in 0..59

(***************************************************************************)
(* Numbers: prices are integers in units of 10^-5, cell values in 10^-6    *)
(***************************************************************************)

\* n / d rounded to the nearest integer, ties to even (Python round)
RoundDiv(n, d) ==
    LET a == IF n < 0 THEN 0 - n ELSE n
        q == a \div d
        r == a % d
        up == (2 * r > d) \/ (2 * r = d /\ q % 2 = 1)
        res == IF up THEN q + 1 ELSE q
    IN IF n < 0 THEN 0 - res ELSE res

(***************************************************************************)
(* parse_csv                                                               *)
(***************************************************************************)

TARIFF_MAPPING_REVERSE(tariff) ==
    CASE tariff = "SIMPLE" -> "Simples"
      [] tariff = "BIHORARIO_DIARIO" -> "Bi-horário - Ciclo Diário"
      [] tariff = "BIHORARIO_SEMANAL" -> "Bi-horário - Ciclo Semanal"
      [] tariff = "TRIHORARIO_DIARIO" -> "Tri-horário - Ciclo Diário"
      [] tariff = "TRIHORARIO_SEMANAL" -> "Tri-horário - Ciclo Semanal"
      [] tariff = "TRIHORARIO_DIARIO_HV" -> "Tri-horário > 20.7 kVA - Ciclo Diário"
      [] tariff = "TRIHORARIO_SEMANAL_HV" -> "Tri-horário > 20.7 kVA - Ciclo Semanal"
      [] OTHER -> tariff

\* Mutant of RowMatches: only the provider is compared
RowMatches_ProviderOnly(content, line, provider, tariff_csv) ==
    RowGet(content, line, "tarifario") = Str(provider)

\* The filter of the loop: row.get("tarifario") == provider and
\* row.get("opcao") == tariff_csv
RowMatches(content, line, provider, tariff_csv) ==
    /\ RowGet(content, line, "tarifario") = Str(provider)
    /\ RowGet(content, line, "opcao") = Str(tariff_csv)

\* float('nan'): an integer that no number of the model equals
NaN == 0 - 2147483647
\* float(text) succeeds
IsFloat(cell) == cell.k \in {"num", "nan"}
\* float(text), in units of 10^-6
FloatOf(cell) == IF cell.k = "nan" THEN NaN ELSE cell.v
\* round(x, 5) of a value in units of 10^-6, in units of 10^-5
Round5(x) == IF x = NaN THEN NaN ELSE RoundDiv(x, 10)

\* Mutant of PriceWithVat: the VAT is applied to the rounded price
PriceWithVat_FromRounded(col_float, vat_rate) ==
    IF col_float = NaN THEN NaN
    ELSE RoundDiv(RoundDiv(col_float, 10) * (100 + vat_rate), 100)

\* round(col_float * (1 + vat_rate / 100), 5), in units of 10^-5
PriceWithVat(col_float, vat_rate) ==
    IF col_float = NaN THEN NaN ELSE RoundDiv(col_float * (100 + vat_rate), 1000)

\* not col_price (after strip): the text is blank
Blank(cell) == cell.k = "str" /\ cell.v \in {"", " "}

\* One row of the loop of parse_csv. The outcome is "skip" (filtered out),
\* "invalid" (skipped_invalid += 1), "nan" (skipped_nan += 1), "ok" (a price is
\* appended) or "raise" (an exception that the except clause does not catch).
ParseRow(content, line, provider, tariff_csv, vat_rate) ==
    LET no(kind) == [kind |-> kind, price |-> <<>>]
        dia == RowItem(content, line, "dia")
        itv == RowItem(content, line, "intervalo")
        col == RowGetBlank(content, line, "col")
        omie == RowGetBlank(content, line, "omie")
        tar == RowGetBlank(content, line, "tar")
    IN
    IF ~RowMatches(content, line, provider, tariff_csv) THEN no("skip")
    \* row["dia"], row["intervalo"]: KeyError
    ELSE IF ~HasField(content, "dia") \/ ~HasField(content, "intervalo") THEN no("invalid")
    \* None.split("/"): AttributeError
    ELSE IF dia.k = "none" THEN no("raise")
    \* day, month, year = date_str.split("/"): ValueError unless three parts
    ELSE IF dia.k # "date" \/ Len(dia.parts) # 3 THEN no("invalid")
    \* re.search(pattern, None): TypeError
    ELSE IF itv.k = "none" THEN no("raise")
    ELSE IF itv.k # "interval" THEN no("invalid")
    \* int(year), int(month), int(day) and datetime(...): ValueError
    ELSE IF \E j \in 1..3 : dia.parts[j] = NotInt THEN no("invalid")
    ELSE IF ~ValidDatetime(dia.parts[3], dia.parts[2], dia.parts[1], itv.h, itv.mi)
    THEN no("invalid")
    \* None.strip(): AttributeError
    ELSE IF col.k = "none" \/ omie.k = "none" \/ tar.k = "none" THEN no("raise")
    ELSE IF Blank(col) \/ Blank(omie) \/ Blank(tar) THEN no("nan")
    \* float(...): ValueError
    ELSE IF ~IsFloat(col) \/ ~IsFloat(omie) \/ ~IsFloat(tar) THEN no("nan")
    ELSE [kind |-> "ok",
          price |-> <<[datetime |-> [y |-> dia.parts[3], m |-> dia.parts[2],
                                     d |-> dia.parts[1], h |-> itv.h, mi |-> itv.mi,
                                     s |-> 0],
                       interval |-> itv,
                       price |-> Round5(FloatOf(col)),
                       price_w_vat |-> PriceWithVat(FloatOf(col), vat_rate),
                       market_price |-> Round5(FloatOf(omie)),
                       tar_cost |-> Round5(FloatOf(tar))]>>]

\* Mutant of ParseRows: each price is put in front of the list
RECURSIVE ParseRows_Prepends(_, _, _, _, _, _)
ParseRows_Prepends(content, i, provider, tariff_csv, vat_rate, acc) ==
    IF acc.raised \/ i > Len(content.rows) THEN acc
    ELSE LET r == ParseRow(content, content.rows[i], provider, tariff_csv, vat_rate)
         IN ParseRows_Prepends(content, i + 1, provider, tariff_csv, vat_rate,
                [raised |-> r.kind = "raise",
                 prices |-> r.price \o acc.prices,
                 skipped_invalid |-> acc.skipped_invalid + (IF r.kind = "invalid" THEN 1 ELSE 0),
                 skipped_nan |-> acc.skipped_nan + (IF r.kind = "nan" THEN 1 ELSE 0)])

\* The loop of parse_csv from row i on; acc is the prices list and the counters so far
RECURSIVE ParseRows(_, _, _, _, _, _)
ParseRows(content, i, provider, tariff_csv, vat_rate, acc) ==
    IF acc.raised \/ i > Len(content.rows) THEN acc
    ELSE LET r == ParseRow(content, content.rows[i], provider, tariff_csv, vat_rate)
         IN ParseRows(content, i + 1, provider, tariff_csv, vat_rate,
                [raised |-> r.kind = "raise",
                 prices |-> acc.prices \o r.price,
                 skipped_invalid |-> acc.skipped_invalid + (IF r.kind = "invalid" THEN 1 ELSE 0),
                 skipped_nan |-> acc.skipped_nan + (IF r.kind = "nan" THEN 1 ELSE 0)])

parse_csv(content, provider, tariff, vat_rate) ==
    ParseRows(StripBOM(content), 1, provider, TARIFF_MAPPING_REVERSE(tariff), vat_rate,
              [raised |-> FALSE, prices |-> <<>>, skipped_invalid |-> 0, skipped_nan |-> 0])

(***************************************************************************)
(* aggregate_to_hourly (energy_price_tracker/csv_fetcher.py)               *)
(***************************************************************************)

\* An item of the list is a dict: a record that has the keys it has. Its
\* "datetime" is a timestamp, or a Str that datetime.fromisoformat rejects.
HasKey(item, key) == key \in DOMAIN item
IsTimestamp(x) == "k" \notin DOMAIN x

\* dt.replace(minute=0, second=0, microsecond=0)
HourFloor(dt) == [dt EXCEPT !.mi = 0, !.s = 0]

\* The order of datetimes with minute and second zero
HourNumber(dt) == ((dt.y * 13 + dt.m) * 32 + dt.d) * 24 + dt.h

\* The items for which the first loop computes a hour_key: price["datetime"]
\* exists (else KeyError) and parses (else ValueError)
Keyed(prices) ==
    SelectSeq(prices, LAMBDA item : HasKey(item, "datetime") /\ IsTimestamp(item.datetime))

\* The keys of hourly_data in the order of their insertion: hourly_data[hour_key]
\* on the defaultdict creates the group at the first item of each hour
InsertionKeys(keyed) ==
    LET firsts == SelectSeq([i \in 1..Len(keyed) |-> i],
                            LAMBDA i : \A j \in 1..(i - 1) :
                                HourFloor(keyed[j].datetime) # HourFloor(keyed[i].datetime))
    IN [n \in 1..Len(firsts) |-> HourFloor(keyed[firsts[n]].datetime)]

\* The three appends of the loop body run in this order, each evaluating
\* hourly_data[hour_key] before price[...]: a KeyError ends the body after the
\* appends made so far.
Appends(item, list) ==
    CASE list = "prices" -> HasKey(item, "price")
      [] list = "prices_vat" -> HasKey(item, "price") /\ HasKey(item, "price_w_vat")
      [] list = "intervals" -> /\ HasKey(item, "price") /\ HasKey(item, "price_w_vat")
                               /\ HasKey(item, "interval")

\* hourly_data[hour_key][list] after the first loop: what the items of the hour
\* appended, in the order of the items
GroupList(keyed, hour_key, list, key) ==
    LET members == SelectSeq(keyed, LAMBDA item : /\ HourFloor(item.datetime) = hour_key
                                                  /\ Appends(item, list))
    IN [n \in 1..Len(members) |-> members[n][key]]

\* hourly_data after the first loop
Collect(prices) ==
    LET keyed == Keyed(prices)
        keys == InsertionKeys(keyed)
    IN [keys |-> keys,
        groups |-> [hour_key \in {keys[n] : n \in 1..Len(keys)} |->
                      [prices |-> GroupList(keyed, hour_key, "prices", "price"),
                       prices_vat |-> GroupList(keyed, hour_key, "prices_vat", "price_w_vat"),
                       intervals |-> GroupList(keyed, hour_key, "intervals", "interval")]]]

\* Mutant of SortedKeys: the keys stay in insertion order
SortedKeys_Insertion(keys) == keys

\* sorted(hourly_data.items()): the keys in ascending order
RECURSIVE SortedKeys(_)
SortedKeys(keys) ==
    IF keys = <<>> THEN <<>>
    ELSE LET least == CHOOSE i \in 1..Len(keys) :
                         \A j \in 1..Len(keys) : HourNumber(keys[i]) <= HourNumber(keys[j])
         IN <<keys[least]>>
            \o SortedKeys(SubSeq(keys, 1, least - 1) \o SubSeq(keys, least + 1, Len(keys)))

\* sum(values): NaN as soon as a value is NaN
RECURSIVE Sum(_)
Sum(values) ==
    IF values = <<>> THEN 0
    ELSE LET rest == Sum(Tail(values))
         IN IF Head(values) = NaN \/ rest = NaN THEN NaN ELSE Head(values) + rest

\* round(sum(values) / len(values), 5) for a non-empty list
Average(values) ==
    IF Sum(values) = NaN THEN NaN ELSE RoundDiv(Sum(values), Len(values))

\* interval.split("-") has a second part: the text holds a "-"
HasDash(interval) == interval.k = "interval"

\* The body of the second loop for one group: "raise" on ZeroDivisionError
\* (an empty list) or IndexError (no interval, or an interval without "-")
HourlyRecord(hour_dt, data) ==
    IF data.prices = <<>> \/ data.prices_vat = <<>> \/ data.intervals = <<>>
    THEN [kind |-> "raise", price |-> <<>>]
    ELSE IF ~HasDash(data.intervals[Len(data.intervals)])
    THEN [kind |-> "raise", price |-> <<>>]
    ELSE [kind |-> "ok",
          price |-> <<[datetime |-> hour_dt,
                       interval |-> [first |-> data.intervals[1],
                                     last |-> data.intervals[Len(data.intervals)]],
                       price |-> Average(data.prices),
                       price_w_vat |-> Average(data.prices_vat)]>>]

RECURSIVE HourlyRecords(_, _, _, _)
HourlyRecords(keys, groups, i, acc) ==
    IF acc.raised \/ i > Len(keys) THEN acc
    ELSE LET r == HourlyRecord(keys[i], groups[keys[i]])
         IN HourlyRecords(keys, groups, i + 1,
                [raised |-> r.kind = "raise", hourly_prices |-> acc.hourly_prices \o r.price])

aggregate_to_hourly(prices) ==
    LET hourly_data == Collect(prices)
    IN HourlyRecords(SortedKeys(hourly_data.keys), hourly_data.groups, 1,
                     [raised |-> FALSE, hourly_prices |-> <<>>])

(***************************************************************************)
(* Bounds and the inputs the environment can supply                        *)
(***************************************************************************)

\* Clock ticks per hour, the last tick of the modelled window, and the number
\* of get_prices calls made in it
TicksPerHour == 2
MaxNow == 2
MaxCalls == 2

\* Calendar days of the window: day i is (17 + i)/11/2025
Days == 0..3
DateOf(i) == [y |-> 2025, m |-> 11, d |-> 17 + i]
\* datetime.fromisoformat(p["datetime"]).date(), as a day of the window
DayOfTimestamp(ts) ==
    IF \E i \in Days : DateOf(i) = [y |-> ts.y, m |-> ts.m, d |-> ts.d]
    THEN CHOOSE i \in Days : DateOf(i) = [y |-> ts.y, m |-> ts.m, d |-> ts.d]
    ELSE 0 - 1

Providers == {"Galp", "EDP"}
Tariffs == {"SIMPLE"}
VatRates == {23}

Header == <<"tarifario", "opcao", "dia", "intervalo", "col", "omie", "tar">>
\* The k-th quarter of an hour of day i for a provider (k in 1..96)
Quarter(provider, opcao, i, k) ==
    <<Str(provider), Str(opcao), DateCell(<<DateOf(i).d, DateOf(i).m, DateOf(i).y>>),
      IntervalCell((k - 1) \div 4, ((k - 1) % 4) * 15),
      Num(180000 + k), Num(100000), Num(50000)>>
QuartersOf(provider, opcao, i, n) == [k \in 1..n |-> Quarter(provider, opcao, i, k)]
Text(rows) == [bom |-> FALSE, header |-> Header, rows |-> rows]

\* Galp: 2 of day 1 (and a blank col, and a row of another tariff), 1 of day 2,
\* 1 of day 3; EDP: 1 of day 1
BodyPartial ==
    Text(QuartersOf("Galp", "Simples", 1, 2)
         \o <<[Quarter("Galp", "Simples", 1, 3) EXCEPT ![5] = Str("")]>>
         \o <<Quarter("Galp", "Bi-horário - Ciclo Diário", 1, 4)>>
         \o QuartersOf("Galp", "Simples", 2, 1)
         \o QuartersOf("Galp", "Simples", 3, 1)
         \o QuartersOf("EDP", "Simples", 1, 1))
\* Galp: 1 of day 0, 1 of day 1; EDP: 1 of day 0, 2 of day 1, 1 of day 2
BodySmall ==
    Text(QuartersOf("Galp", "Simples", 0, 1) \o QuartersOf("EDP", "Simples", 0, 1)
         \o QuartersOf("Galp", "Simples", 1, 1) \o QuartersOf("EDP", "Simples", 1, 2)
         \o QuartersOf("EDP", "Simples", 2, 1))
\* Galp: the full day 1 and 2 of day 2; EDP: 1 of day 1
BodyFull ==
    Text(QuartersOf("Galp", "Simples", 1, 96) \o QuartersOf("Galp", "Simples", 2, 2)
         \o QuartersOf("EDP", "Simples", 1, 1))
\* Galp: 2 of day 0
BodyOld == Text(QuartersOf("Galp", "Simples", 0, 2))
\* Galp: 1 of day 0, 1 of day 1; EDP: a last line cut short after its second field
BodyCut ==
    Text(QuartersOf("Galp", "Simples", 0, 1) \o QuartersOf("Galp", "Simples", 1, 1)
         \o <<<<Str("EDP"), Str("Simples")>>>>)

\* The state holds a text by its name; NoText names None
NoText == "None"
Names == {"empty", "partial", "small", "full", "old", "cut"}
TextOf(name) ==
    CASE name = "empty" -> EmptyText
      [] name = "partial" -> BodyPartial
      [] name = "small" -> BodySmall
      [] name = "full" -> BodyFull
      [] name = "old" -> BodyOld
      [] name = "cut" -> BodyCut
      [] OTHER -> None
NameOf(text) == CHOOSE n \in Names : TextOf(n) = text

LiveBodies == {"empty", "partial", "small", "full", "cut"}
HistBodies == {"old", "small", "cut"}

Timeout == [t |-> "timeout"]
Http(status, body) == [t |-> "http", status |-> status, body |-> body]
LiveResponses ==
    {Timeout, Http(404, "empty"), Http(500, "empty")} \cup {Http(200, b) : b \in LiveBodies}
\* The commit listing answers with a JSON list of commits (at most one: per_page=1)
CommitResponses ==
    {Timeout, Http(500, <<>>), Http(200, <<>>), Http(200, <<"sha1">>),
     Http(200, <<"sha2", "sha1">>)}
FileResponses ==
    {Timeout, Http(404, "empty")} \cup {Http(200, b) : b \in HistBodies}

\* The lines, headers and arguments of the parse_csv calls made on their own:
\* texts of at most MaxRows lines
MaxRows == 2
SampleRow(provider, opcao) ==
    <<Str(provider), Str(opcao), DateCell(<<18, 11, 2025>>), IntervalCell(0, 0),
      Num(180000), Num(100000), Num(50000)>>
\* Two parts, a part that is no integer, the 31st of November, no date at all
BadDates ==
    {DateCell(<<18, 11>>), DateCell(<<NotInt, 11, 2025>>), DateCell(<<31, 11, 2025>>),
     Str("abc")}
\* Hour 24, no interval at all
BadIntervals == {IntervalCell(24, 0), Str("abc")}
\* More than five decimals, "nan", blank, no number
ColCells == {Num(123456), Num(99994), NaNText, Str(""), Str(" "), Str("abc")}
\* A line and its variations: one cell changed, or cut short after n cells
LinesLike(b) ==
    {b, [b EXCEPT ![4] = IntervalCell(0, 15)]}
    \cup {[b EXCEPT ![3] = x] : x \in BadDates}
    \cup {[b EXCEPT ![4] = x] : x \in BadIntervals}
    \cup {[b EXCEPT ![5] = x] : x \in ColCells}
    \cup {[b EXCEPT ![6] = Str("")], [b EXCEPT ![7] = Str("abc")]}
    \cup {SubSeq(b, 1, n) : n \in 2..6}
ParseLines ==
    LinesLike(SampleRow("Galp", "Simples"))
    \cup {SampleRow("EDP", "Simples"), SubSeq(SampleRow("EDP", "Simples"), 1, 2),
          [SampleRow("EDP", "Simples") EXCEPT ![3] = Str("abc")],
          [SampleRow("EDP", "Simples") EXCEPT ![5] = Str("")]}
    \cup {SampleRow("Galp", "Bi-horário - Ciclo Diário"),
          SubSeq(SampleRow("Galp", "Bi-horário - Ciclo Diário"), 1, 3)}
\* The full header, one without the col column, one without the dia column
ParseHeaders ==
    {Header, <<"tarifario", "opcao", "dia", "intervalo", "omie", "tar">>,
     <<"tarifario", "opcao", "intervalo", "col", "omie", "tar">>}
ParseTariffs == {"SIMPLE"}
ParseVatRates == {0, 23, 100}
\* The items of the lists given to aggregate_to_hourly on its own: lists of at
\* most MaxItems items
MaxItems == 3
PriceItem(d, h, mi, s, col_float) ==
    [datetime |-> [y |-> 2025, m |-> 11, d |-> d, h |-> h, mi |-> mi, s |-> s],
     interval |-> IntervalCell(h, mi),
     price |-> Round5(col_float), price_w_vat |-> PriceWithVat(col_float, 23),
     market_price |-> 10000, tar_cost |-> 5000]
\* The keys of a dict without one of them
Without(item, key) == [x \in DOMAIN item \ {key} |-> item[x]]
HourlyItems ==
    {PriceItem(d, h, mi, 0, price) : d \in {18, 19}, h \in {0, 1}, mi \in {0, 45},
                                     price \in {180000, 200010}}
    \cup {PriceItem(18, 0, 15, 30, 180000), PriceItem(18, 0, 15, 0, NaN)}
    \cup {Without(PriceItem(18, 0, 0, 0, 180000), key) :
             key \in {"datetime", "price", "price_w_vat", "interval"}}
    \cup {[PriceItem(18, 0, 0, 0, 180000) EXCEPT !.datetime = Str("abc")],
          [PriceItem(18, 0, 0, 0, 180000) EXCEPT !.interval = Str("abc")]}
\* No aggregate_to_hourly call on its own is made
NoHourly == [phase |-> "off", prices |-> <<>>, out |-> None]

\* No parse_csv call on its own is made
NoParse ==
    [phase |-> "off", content |-> EmptyText, provider |-> "", tariff |-> "", vat_rate |-> 0,
     out |-> None]

\* The config entries the host may hold: entry_id 1..MaxEntries, compared as
\* sorted() compares the entry_id strings
MaxEntries == 3
EntryIds == 1..MaxEntries

\* No update of a coordinator is made
NoUpdate ==
    [ran |-> FALSE, hour |-> 0, available |-> FALSE, should_bypass_cache |-> FALSE,
     fetched |-> FALSE, failed |-> FALSE, tomorrow_prices |-> "none"]
NoCoordinator ==
    [phase |-> "off", hour |-> 0, published |-> FALSE, cached |-> "none", age |-> 0,
     data |-> "none", last |-> NoUpdate]

\* No config entry is set up
\* The refresh_data service before any call: the locals of handle_refresh_data
NoService ==
    [phase |-> "idle", target_datetime |-> NoText, instances |-> <<>>,
     attempted |-> <<>>, raised |-> {}, success_count |-> 0, failed_count |-> 0]

NoHass ==
    [phase |-> "off", entries |-> <<>>, select_setup |-> {}, sensor_setup |-> {},
     select_for |-> {}, routing_for |-> {}, migration_version |-> <<>>, registry |-> {},
     data |-> <<>>, options |-> <<>>, current_option |-> NoText, updated |-> FALSE,
     loaded |-> <<>>, service |-> NoService]

(***************************************************************************)
(* State                                                                   *)
(***************************************************************************)

VARIABLES
    now,          \* datetime.now(), in ticks
    today,        \* datetime.now().date(), a day of Days
    cache,        \* CSVDataCache._cache: date_key -> (provider_tariff -> prices)
    cache_times,  \* CSVDataCache._cache_times: date_key -> tick
    files,        \* data_dir: date -> name of the text of prices_<date>.csv
    calls,        \* the get_prices coroutines: locals, position and what they did
    entry_time,   \* history: (date_key, provider_tariff) -> tick at which the value was stored
    n_calls,      \* history: the number of get_prices calls so far
    parse,        \* a parse_csv call on its own: the arguments and what it returned
    hourly,       \* an aggregate_to_hourly call on its own: the list and what it returned
    legacy,       \* the fetcher of energy_price_tracker: its cache, its files, its last call
    coordinator,  \* EnergyPriceCoordinator: the hour, tomorrow's data and its last update
    hass,         \* the host: its config entries and the entities the platforms created
    stored        \* history: (date_key, provider, tariff) -> the prices a call for that
                  \* pair stored last, while the date's cache entry lives

vars ==
    <<now, today, cache, cache_times, files, calls, entry_time, n_calls, stored, parse,
      hourly, legacy, coordinator, hass>>
\* The calls made on their own and the fetcher of the other integration
apart == <<parse, hourly, legacy, coordinator, hass>>
\* The state of the fetcher and its history
fetcher == <<now, today, cache, cache_times, files, calls, entry_time, n_calls, stored>>

Slots == {1, 2}

CACHE_DURATION == TicksPerHour
max_retries == 3
CompleteCount == 96

Put(f, k, v) == [x \in DOMAIN f \cup {k} |-> IF x = k THEN v ELSE f[x]]
Del(f, k) == [x \in DOMAIN f \ {k} |-> f[x]]

\* Mutant of CacheKey: the provider is left out of the key
CacheKey_TariffOnly(provider, tariff) == tariff

\* f"{provider}_{tariff}"
CacheKey(provider, tariff) == provider \o "_" \o tariff

(***************************************************************************)
(* CSVDataCache                                                            *)
(***************************************************************************)

\* datetime.now() - cache_time < CACHE_DURATION
Fresh(cache_time, t) == t - cache_time < CACHE_DURATION

\* Mutant of cache_get: bypass_cache is not looked at
cache_get_IgnoresBypass(c, ct, date_key, bypass_cache, t) ==
    IF date_key \notin DOMAIN c
    THEN [value |-> None, cache |-> c, times |-> ct, expired |-> FALSE]
    ELSE IF date_key \in DOMAIN ct /\ Fresh(ct[date_key], t)
    THEN [value |-> c[date_key], cache |-> c, times |-> ct, expired |-> FALSE]
    ELSE [value |-> None, cache |-> Del(c, date_key), times |-> Del(ct, date_key),
          expired |-> TRUE]

\* CSVDataCache.get: the value returned and the dictionaries afterwards
cache_get(c, ct, date_key, bypass_cache, t) ==
    IF bypass_cache THEN [value |-> None, cache |-> c, times |-> ct, expired |-> FALSE]
    ELSE IF date_key \notin DOMAIN c
    THEN [value |-> None, cache |-> c, times |-> ct, expired |-> FALSE]
    ELSE IF date_key \in DOMAIN ct /\ Fresh(ct[date_key], t)
    THEN [value |-> c[date_key], cache |-> c, times |-> ct, expired |-> FALSE]
    ELSE [value |-> None, cache |-> Del(c, date_key), times |-> Del(ct, date_key),
          expired |-> TRUE]

\* Mutant of cache_put: the entry of the date is built anew around the value
cache_put_ReplacesDate(c, date_key, key, prices) ==
    Put(c, date_key, Put(<<>>, key, prices))

\* get_prices, "Cache the result in memory": self.cache._cache[date_key][key] = prices
cache_put(c, date_key, key, prices) ==
    IF date_key \notin DOMAIN c THEN Put(c, date_key, Put(<<>>, key, prices))
    ELSE [c EXCEPT ![date_key] = Put(@, key, prices)]

(***************************************************************************)
(* Local store                                                             *)
(***************************************************************************)

\* load_from_local, "Remove BOM if present", for each text a file can hold
Loaded == [n \in Names |-> NameOf(StripBOM(TextOf(n)))]
\* load_from_local: None when the file does not exist, else its text without BOM
load_from_local(fs, date) == IF date \notin DOMAIN fs THEN NoText ELSE Loaded[fs[date]]
\* save_to_local
save_to_local(fs, date, content) == Put(fs, date, content)

\* if csv_content: / if existing_file:
TruthyText(name) == Truthy(TextOf(name))

(***************************************************************************)
(* get_prices                                                              *)
(***************************************************************************)

\* Mutant of FilterDate: every record is kept
FilterDate_KeepsAll(prices, target_date) == prices

\* [p for p in prices if datetime.fromisoformat(p["datetime"]).date() == target_date.date()]
FilterDate(prices, target_date) ==
    SelectSeq(prices, LAMBDA p : DayOfTimestamp(p.datetime) = target_date)

\* parse_csv followed by the filter to the target date
PricesFor(content, provider, tariff, vat_rate, target_date) ==
    LET r == parse_csv(content, provider, tariff, vat_rate)
    IN [raised |-> r.raised, prices |-> FilterDate(r.prices, target_date)]

\* PricesFor of every text the environment supplies, evaluated once
PricesTable ==
    [n \in Names, provider \in Providers, tariff \in Tariffs, vat_rate \in VatRates,
     target_date \in Days |-> PricesFor(TextOf(n), provider, tariff, vat_rate, target_date)]
PricesOf(name, provider, tariff, vat_rate, target_date) ==
    PricesTable[name, provider, tariff, vat_rate, target_date]

\* Mutant of LegacyPrices: the parsed intervals are returned as they are
LegacyPrices_NotAggregated(content, provider, tariff, vat_rate) ==
    LET r == parse_csv(content, provider, tariff, vat_rate)
    IN IF r.raised THEN [raised |-> TRUE, prices |-> <<>>]
       ELSE [raised |-> FALSE, prices |-> r.prices]

\* energy_price_tracker, get_prices: parse_csv followed by aggregate_to_hourly,
\* with no filter on the date
LegacyPrices(content, provider, tariff, vat_rate) ==
    LET r == parse_csv(content, provider, tariff, vat_rate)
        h == aggregate_to_hourly(r.prices)
    IN IF r.raised THEN [raised |-> TRUE, prices |-> <<>>]
       ELSE [raised |-> h.raised, prices |-> h.hourly_prices]
LegacyPricesTable ==
    [n \in Names, provider \in Providers, tariff \in Tariffs, vat_rate \in VatRates |->
        LegacyPrices(TextOf(n), provider, tariff, vat_rate)]
LegacyPricesOf(name, provider, tariff, vat_rate) ==
    LegacyPricesTable[name, provider, tariff, vat_rate]

\* The fetcher of energy_price_tracker before its first call
NoLegacy ==
    [cache |-> <<>>, cache_times |-> <<>>, files |-> <<>>, n_calls |-> 0,
     last |-> [provider |-> "", tariff |-> "", vat_rate |-> 0, target_date |-> 0,
               bypass_cache |-> FALSE, csv_content |-> NoText, outcome |-> "none", result |-> <<>>,
               source |-> "none"]]

\* A coroutine that has not been called yet
NoCall ==
    [pc |-> "idle", provider |-> "", tariff |-> "", vat_rate |-> 0, target_date |-> 0,
     bypass_cache |-> FALSE, is_today |-> FALSE, is_tomorrow |-> FALSE, is_past |-> FALSE,
     csv_content |-> NoText, prices |-> <<>>, attempt |-> 0, commit_sha |-> "",
     started_day |-> 0, overwritten |-> NoText,
     \* what the call did
     outcome |-> "none", result |-> <<>>, error |-> "", source |-> "none",
     live_gets |-> 0, commit_gets |-> 0, file_gets |-> 0, waits |-> <<>>,
     last_response |-> None, commits |-> <<>>, file_url |-> "",
     saved |-> FALSE, existing_file |-> NoText,
     \* what the call found when it started
     started_at |-> 0, file_before |-> NoText, entry_at |-> 0 - 1,
     repeats |-> FALSE, previous |-> <<>>, identical |-> FALSE]

Running(c) == c.pc \notin {"idle", "done"}

\* return prices
Return(c, prices, source) ==
    [c EXCEPT !.pc = "done", !.outcome = "returned", !.result = prices, !.source = source,
              !.prices = <<>>, !.identical = c.repeats /\ prices = c.previous,
              !.previous = <<>>]
\* Mutant of Raise: the failure is swallowed and an empty list returned
Raise_ReturnsEmpty(c, msg) == Return([c EXCEPT !.error = msg], <<>>, c.source)

\* raise Exception(msg)
Raise(c, msg) ==
    [c EXCEPT !.pc = "done", !.outcome = "raised", !.error = msg, !.prices = <<>>,
              !.previous = <<>>]

\* Mutant of Pow2: the backoff starts at two seconds
Pow2_FromTwo(n) == 2 * (n + 1)

RECURSIVE Pow2(_)
Pow2(n) == IF n = 0 THEN 1 ELSE 2 * Pow2(n - 1)

\* Mutant of LastAttempt: one attempt too many
LastAttempt_OffByOne(attempt) == attempt = max_retries

\* fetch_current_csv, both except clauses: the last attempt raises, the others wait and retry
LastAttempt(attempt) == attempt = max_retries - 1

\* The text of the exception fetch_current_csv raises after its last attempt
LiveError(resp) ==
    IF resp.t = "timeout" THEN "Timeout fetching CSV from GitHub after all retries"
    ELSE IF resp.status = 404
    THEN "Error fetching CSV after all retries: CSV file not found (HTTP 404)"
    ELSE "Error fetching CSV after all retries: Failed to fetch CSV: HTTP " \o ToString(resp.status)

\* get_prices, "Check if cached data is complete": len(temp_prices) >= 96
Complete(prices) == Len(prices) >= CompleteCount

\* Mutant of ShouldSave: the new content is always written
ShouldSave_Always(prices, existing_file, existing_for_date) == TRUE

\* Mutant of ShouldSave: an equal count overwrites too
ShouldSave_OrEqual(prices, existing_file, existing_for_date) ==
    IF TruthyText(existing_file) THEN Len(prices) >= Len(existing_for_date) ELSE TRUE

\* get_prices, "Smart disk persistence": should_save, given the prices of the
\* fetched text and those of the text that load_from_local returned
ShouldSave(prices, existing_file, existing_for_date) ==
    IF TruthyText(existing_file) THEN Len(prices) > Len(existing_for_date) ELSE TRUE

\* Mutant of CacheLookup: "if prices:" instead of "if prices is not None:"
CacheLookup_Truthy(cached_data, key) ==
    IF cached_data # None /\ DOMAIN cached_data # {} /\ key \in DOMAIN cached_data
       /\ cached_data[key] # <<>>
    THEN [hit |-> TRUE, prices |-> cached_data[key]]
    ELSE [hit |-> FALSE, prices |-> <<>>]

\* get_prices, "Check memory cache first": the prices to return, if any
CacheLookup(cached_data, key) ==
    IF cached_data # None /\ DOMAIN cached_data # {} /\ key \in DOMAIN cached_data
    THEN [hit |-> TRUE, prices |-> cached_data[key]]
    ELSE [hit |-> FALSE, prices |-> <<>>]

\* Mutant of IsPast: every date that is neither today nor tomorrow is past
IsPast_NotTodayNorTomorrow(target_date, day) ==
    target_date # day /\ target_date # day + 1

\* is_past = target_date.date() < datetime.now().date()
IsPast(target_date, day) == target_date < day

\* Mutant of FirstStep: a past date is looked up in the local store even when bypassing
FirstStep_PastAlwaysLocal(is_past, is_today, bypass_cache) ==
    IF is_past THEN "load_past"
    ELSE IF is_today /\ ~bypass_cache THEN "load_today" ELSE "fetch_current"

\* Mutant of FirstStep: the local file is tried for tomorrow as it is for today
FirstStep_LocalUnlessPast(is_past, is_today, bypass_cache) ==
    IF is_past THEN (IF ~bypass_cache THEN "load_past" ELSE "hist_commits")
    ELSE IF ~bypass_cache THEN "load_today" ELSE "fetch_current"

\* The source get_prices turns to after a miss of the memory cache
FirstStep(is_past, is_today, bypass_cache) ==
    IF is_past THEN (IF ~bypass_cache THEN "load_past" ELSE "hist_commits")
    ELSE IF is_today /\ ~bypass_cache THEN "load_today" ELSE "fetch_current"

\* "Cache the result in memory" and return
Finish(s, c, prices, source) ==
    /\ cache' = cache_put(cache, c.target_date, CacheKey(c.provider, c.tariff), prices)
    /\ cache_times' = Put(cache_times, c.target_date, now)
    /\ entry_time' = Put(entry_time, <<c.target_date, CacheKey(c.provider, c.tariff)>>, now)
    /\ stored' = Put(stored, <<c.target_date, c.provider, c.tariff>>, prices)
    /\ calls' = [calls EXCEPT ![s] = Return(c, prices, source)]

NoCacheChange == UNCHANGED <<cache, cache_times, entry_time, stored>>

\* "Parse CSV for the requested date" up to the next await
Parsed(s, c, source) ==
    LET r == PricesOf(c.csv_content, c.provider, c.tariff, c.vat_rate, c.target_date)
    IN IF r.raised
       THEN /\ calls' = [calls EXCEPT ![s] = Raise(c, "AttributeError")]
            /\ NoCacheChange
       ELSE IF c.is_past \/ ~(c.is_today \/ c.is_tomorrow)
       THEN Finish(s, c, r.prices, source)
       ELSE /\ calls' = [calls EXCEPT ![s] =
                            [c EXCEPT !.pc = "check_existing", !.prices = r.prices,
                                      !.source = source]]
            /\ NoCacheChange

\* get_prices from its entry to the first await
Start(s, limit, provider, tariff, vat_rate, target_date, bypass_cache) ==
    /\ ~Running(calls[s])
    /\ n_calls < limit
    \* the calls of one window ask for one date
    /\ calls[s].pc = "idle" \/ target_date = calls[s].target_date
    /\ n_calls' = n_calls + 1
    /\ LET key == CacheKey(provider, tariff)
           g == cache_get(cache, cache_times, target_date, bypass_cache, now)
           l == CacheLookup(g.value, key)
           is_today == target_date = today
           is_tomorrow == target_date = today + 1
           is_past == IsPast(target_date, today)
           old == calls[s]
           same == /\ old.pc = "done" /\ old.outcome = "returned"
                   /\ old.provider = provider /\ old.tariff = tariff
                   /\ old.vat_rate = vat_rate /\ old.target_date = target_date
                   /\ ~old.bypass_cache /\ ~bypass_cache
           c == [NoCall EXCEPT
                   !.provider = provider, !.tariff = tariff, !.vat_rate = vat_rate,
                   !.target_date = target_date, !.bypass_cache = bypass_cache,
                   !.is_today = is_today, !.is_tomorrow = is_tomorrow, !.is_past = is_past,
                   !.started_at = now, !.started_day = today,
                   !.file_before = IF target_date \in DOMAIN files THEN files[target_date]
                                   ELSE NoText,
                   !.entry_at = IF <<target_date, key>> \in DOMAIN entry_time
                                THEN entry_time[<<target_date, key>>] ELSE 0 - 1,
                   !.repeats = same,
                   !.previous = IF same THEN old.result ELSE <<>>]
       IN /\ cache' = g.cache
          /\ cache_times' = g.times
          /\ entry_time' = IF g.expired
                           THEN [k \in {x \in DOMAIN entry_time : x[1] # target_date}
                                    |-> entry_time[k]]
                           ELSE entry_time
          /\ stored' = IF g.expired
                       THEN [k \in {x \in DOMAIN stored : x[1] # target_date} |-> stored[k]]
                       ELSE stored
          /\ calls' = [calls EXCEPT ![s] =
                         IF l.hit THEN Return(c, l.prices, "memory")
                         ELSE [c EXCEPT !.pc = FirstStep(is_past, is_today, bypass_cache)]]
    /\ UNCHANGED <<now, today, files>>
    /\ UNCHANGED apart

\* Mutant of LoadPast: the text loaded from the local store is saved again
LoadPast_Resaves(s) ==
    /\ calls[s].pc = "load_past"
    /\ LET content == load_from_local(files, calls[s].target_date)
           c == [calls[s] EXCEPT !.csv_content = content]
       IN /\ calls' = [calls EXCEPT ![s] =
                         [c EXCEPT !.pc = IF content = NoText THEN "hist_commits"
                                          ELSE "save_past"]]
          /\ NoCacheChange
    /\ UNCHANGED <<now, today, files, n_calls>>
    /\ UNCHANGED apart

\* past date: csv_content = await self.load_from_local(target_date), and when
\* the file exists: parse, cache, return
LoadPast(s) ==
    /\ calls[s].pc = "load_past"
    /\ LET content == load_from_local(files, calls[s].target_date)
           c == [calls[s] EXCEPT !.csv_content = content]
       IN IF content = NoText
          THEN /\ calls' = [calls EXCEPT ![s] = [c EXCEPT !.pc = "hist_commits"]]
               /\ NoCacheChange
          ELSE Parsed(s, c, "local")
    /\ UNCHANGED <<now, today, files, n_calls>>
    /\ UNCHANGED apart

\* Mutant of FirstCommit: the last commit of the listing
FirstCommit_Last(commits) == commits[Len(commits)]

\* commit_sha = commits[0]["sha"]
FirstCommit(commits) == commits[1]

\* The text of the exception fetch_historical_csv raises on an empty commit list
NoCommitsError(target_date) ==
    "Error fetching historical CSV: No commits found for " \o ToString(target_date)

\* Mutant of HistCommits: an empty commit list is not looked at
HistCommits_IgnoresEmpty(s, resp) ==
    /\ calls[s].pc = "hist_commits"
    /\ LET c == [calls[s] EXCEPT !.commit_gets = @ + 1, !.last_response = resp,
                                 !.commits = IF resp.t = "http" /\ resp.status = 200
                                             THEN resp.body ELSE <<>>]
       IN calls' = [calls EXCEPT ![s] =
            IF resp.t = "timeout"
            THEN Raise(c, "Timeout fetching historical CSV from GitHub")
            ELSE IF resp.status # 200
            THEN Raise(c, "Error fetching historical CSV: Failed to fetch commit history: HTTP "
                          \o ToString(resp.status))
            ELSE [c EXCEPT !.pc = "hist_file",
                           !.commit_sha = IF resp.body = <<>> THEN ""
                                          ELSE FirstCommit(resp.body)]]
    /\ NoCacheChange
    /\ UNCHANGED <<now, today, files, n_calls>>
    /\ UNCHANGED apart

\* fetch_historical_csv: the GET of the commit listing
HistCommits(s, resp) ==
    /\ calls[s].pc = "hist_commits"
    /\ LET c == [calls[s] EXCEPT !.commit_gets = @ + 1, !.last_response = resp,
                                 !.commits = IF resp.t = "http" /\ resp.status = 200
                                             THEN resp.body ELSE <<>>]
       IN calls' = [calls EXCEPT ![s] =
            IF resp.t = "timeout"
            THEN Raise(c, "Timeout fetching historical CSV from GitHub")
            ELSE IF resp.status # 200
            THEN Raise(c, "Error fetching historical CSV: Failed to fetch commit history: HTTP "
                          \o ToString(resp.status))
            ELSE IF resp.body = <<>>
            THEN Raise(c, NoCommitsError(c.target_date))
            ELSE [c EXCEPT !.pc = "hist_file", !.commit_sha = FirstCommit(resp.body)]]
    /\ NoCacheChange
    /\ UNCHANGED <<now, today, files, n_calls>>
    /\ UNCHANGED apart

\* fetch_historical_csv: the GET of the file at the commit
HistFile(s, resp) ==
    /\ calls[s].pc = "hist_file"
    /\ LET c == [calls[s] EXCEPT !.file_gets = @ + 1, !.last_response = resp,
                                 !.file_url = @ \o calls[s].commit_sha]
       IN calls' = [calls EXCEPT ![s] =
            IF resp.t = "timeout"
            THEN Raise(c, "Timeout fetching historical CSV from GitHub")
            ELSE IF resp.status # 200
            THEN Raise(c, "Error fetching historical CSV: Failed to fetch historical CSV: HTTP "
                          \o ToString(resp.status))
            ELSE [c EXCEPT !.pc = "save_past", !.csv_content = resp.body]]
    /\ NoCacheChange
    /\ UNCHANGED <<now, today, files, n_calls>>
    /\ UNCHANGED apart

\* past date: await self.save_to_local(target_date, csv_content), then parse, cache, return
SavePast(s) ==
    /\ calls[s].pc = "save_past"
    /\ files' = save_to_local(files, calls[s].target_date, calls[s].csv_content)
    /\ Parsed(s, [calls[s] EXCEPT !.saved = TRUE], "historical")
    /\ UNCHANGED <<now, today, n_calls>>
    /\ UNCHANGED apart

\* today: "Try loading today from local file first (if it's complete)"
LoadToday(s) ==
    /\ calls[s].pc = "load_today"
    /\ LET content == load_from_local(files, calls[s].target_date)
           c == [calls[s] EXCEPT !.csv_content = content]
           r == PricesOf(content, c.provider, c.tariff, c.vat_rate, c.target_date)
       IN IF ~TruthyText(content)
          THEN /\ calls' = [calls EXCEPT ![s] = [c EXCEPT !.pc = "fetch_current"]]
               /\ NoCacheChange
          ELSE IF r.raised
          THEN /\ calls' = [calls EXCEPT ![s] = Raise(c, "AttributeError")]
               /\ NoCacheChange
          ELSE IF Complete(r.prices)
          THEN Finish(s, c, r.prices, "local")
          ELSE /\ calls' = [calls EXCEPT ![s] = [c EXCEPT !.pc = "fetch_current"]]
               /\ NoCacheChange
    /\ UNCHANGED <<now, today, files, n_calls>>
    /\ UNCHANGED apart

\* fetch_current_csv: one attempt of the loop
FetchCurrent(s, resp) ==
    /\ calls[s].pc = "fetch_current"
    /\ LET c == [calls[s] EXCEPT !.live_gets = @ + 1, !.last_response = resp]
       IN IF resp.t = "http" /\ resp.status = 200
          THEN Parsed(s, [c EXCEPT !.csv_content = resp.body], "live")
          ELSE /\ calls' = [calls EXCEPT ![s] =
                    IF LastAttempt(c.attempt) THEN Raise(c, LiveError(resp))
                    ELSE [c EXCEPT !.pc = "fetch_sleep", !.waits = Append(@, Pow2(c.attempt))]]
               /\ NoCacheChange
    /\ UNCHANGED <<now, today, files, n_calls>>
    /\ UNCHANGED apart

\* Mutant of FetchSleep: the loop variable does not advance
FetchSleep_SameAttempt(s) ==
    /\ calls[s].pc = "fetch_sleep"
    /\ calls' = [calls EXCEPT ![s] = [@ EXCEPT !.pc = "fetch_current",
                                               !.waits = <<>>, !.live_gets = 0]]
    /\ NoCacheChange
    /\ UNCHANGED <<now, today, files, n_calls>>
    /\ UNCHANGED apart

\* fetch_current_csv: await asyncio.sleep(wait_time), then the next attempt
FetchSleep(s) ==
    /\ calls[s].pc = "fetch_sleep"
    /\ calls' = [calls EXCEPT ![s] = [@ EXCEPT !.pc = "fetch_current", !.attempt = @ + 1]]
    /\ NoCacheChange
    /\ UNCHANGED <<now, today, files, n_calls>>
    /\ UNCHANGED apart

\* today/tomorrow: existing_file = await self.load_from_local(target_date) and should_save
CheckExisting(s) ==
    /\ calls[s].pc = "check_existing"
    /\ LET existing_file == load_from_local(files, calls[s].target_date)
           c == [calls[s] EXCEPT !.existing_file = existing_file]
           r == PricesOf(existing_file, c.provider, c.tariff, c.vat_rate, c.target_date)
       IN IF TruthyText(existing_file) /\ r.raised
          THEN /\ calls' = [calls EXCEPT ![s] = Raise(c, "AttributeError")]
               /\ NoCacheChange
          ELSE IF ShouldSave(c.prices, existing_file,
                             IF TruthyText(existing_file) THEN r.prices ELSE <<>>)
          THEN /\ calls' = [calls EXCEPT ![s] = [c EXCEPT !.pc = "save_new"]]
               /\ NoCacheChange
          ELSE Finish(s, c, c.prices, c.source)
    /\ UNCHANGED <<now, today, files, n_calls>>
    /\ UNCHANGED apart

\* today/tomorrow: await self.save_to_local(target_date, csv_content), then cache and return
SaveNew(s) ==
    /\ calls[s].pc = "save_new"
    /\ files' = save_to_local(files, calls[s].target_date, calls[s].csv_content)
    /\ Finish(s, [calls[s] EXCEPT !.saved = TRUE,
                                  !.overwritten = load_from_local(files, calls[s].target_date)],
              calls[s].prices, calls[s].source)
    /\ UNCHANGED <<now, today, n_calls>>
    /\ UNCHANGED apart

(***************************************************************************)
(* The clock                                                               *)
(***************************************************************************)

Tick ==
    /\ now < MaxNow
    /\ now' = now + 1
    /\ UNCHANGED <<today, cache, cache_times, files, calls, entry_time, n_calls, stored>>
    /\ UNCHANGED apart

\* The window holds one midnight. get_prices reads the date once, at its entry.
Midnight ==
    /\ today = 1
    /\ \A s \in Slots : ~Running(calls[s])
    /\ today' = today + 1
    /\ UNCHANGED <<now, cache, cache_times, files, calls, entry_time, n_calls, stored>>
    /\ UNCHANGED apart

(***************************************************************************)
(* Specification: one get_prices call at a time                            *)
(***************************************************************************)

FetcherInit ==
    /\ now = 0
    /\ today = 1
    /\ cache = <<>>
    /\ cache_times = <<>>
    /\ files = <<>>
    /\ calls = [s \in Slots |-> NoCall]
    /\ entry_time = <<>>
    /\ n_calls = 0
    /\ stored = <<>>

Init ==
    /\ FetcherInit
    /\ parse = NoParse
    /\ hourly = NoHourly
    /\ legacy = NoLegacy
    /\ coordinator = NoCoordinator
    /\ hass = NoHass

\* The steps of the call in progress and of the clock
Step ==
    \/ LoadPast(1)
    \/ \E resp \in CommitResponses : HistCommits(1, resp)
    \/ \E resp \in FileResponses : HistFile(1, resp)
    \/ SavePast(1)
    \/ LoadToday(1)
    \/ \E resp \in LiveResponses : FetchCurrent(1, resp)
    \/ FetchSleep(1)
    \/ CheckExisting(1)
    \/ SaveNew(1)
    \/ Tick
    \/ Midnight

Next ==
    \/ \E provider \in Providers, tariff \in Tariffs, vat_rate \in VatRates,
          target_date \in Days, bypass_cache \in BOOLEAN :
            Start(1, MaxCalls, provider, tariff, vat_rate, target_date, bypass_cache)
    \/ Step

Spec == Init /\ [][Next]_vars

\* The same with one more call in the window
NextLong ==
    \/ \E provider \in Providers, tariff \in Tariffs, vat_rate \in VatRates,
          target_date \in Days, bypass_cache \in BOOLEAN :
            Start(1, MaxCalls + 1, provider, tariff, vat_rate, target_date, bypass_cache)
    \/ Step

SpecLong == Init /\ [][NextLong]_vars

(***************************************************************************)
(* parse_csv on texts assembled line by line                               *)
(***************************************************************************)

\* The text grows by one line
AppendLine(line) ==
    /\ parse.phase = "text"
    /\ Len(parse.content.rows) < MaxRows
    /\ parse' = [parse EXCEPT !.content.rows = Append(@, line)]
    /\ UNCHANGED <<fetcher, hourly, legacy, coordinator, hass>>

\* parse_csv(csv_content, provider, tariff, vat_rate)
ParseCsv ==
    /\ parse.phase = "text"
    /\ parse' = [parse EXCEPT !.phase = "parsed",
                              !.out = parse_csv(parse.content, parse.provider,
                                                parse.tariff, parse.vat_rate)]
    /\ UNCHANGED <<fetcher, hourly, legacy, coordinator, hass>>

InitParse ==
    /\ FetcherInit
    /\ parse \in [phase : {"text"},
                  content : {[bom |-> b, header |-> h, rows |-> <<>>] :
                                b \in BOOLEAN, h \in ParseHeaders},
                  provider : Providers, tariff : ParseTariffs, vat_rate : ParseVatRates,
                  out : {None}]
    /\ hourly = NoHourly
    /\ legacy = NoLegacy
    /\ coordinator = NoCoordinator
    /\ hass = NoHass

NextParse ==
    \/ \E line \in ParseLines : AppendLine(line)
    \/ ParseCsv

SpecParse == InitParse /\ [][NextParse]_vars

(***************************************************************************)
(* energy_price_tracker: CSVDataFetcher.get_prices                         *)
(***************************************************************************)

\* What fetch_current_csv (today) or fetch_historical_csv (any other date)
\* ends with: a text, or NoText for the exception it raises
LegacyFetched(is_today) == {NoText} \cup (IF is_today THEN LiveBodies ELSE HistBodies)

\* A whole call of get_prices of energy_price_tracker/csv_fetcher.py; fetched
\* is what the fetch ends with when the call comes to fetch.
LegacyGetPrices(provider, tariff, vat_rate, target_date, bypass_cache, fetched) ==
    LET got == cache_get(legacy.cache, legacy.cache_times, target_date, bypass_cache, now)
        key == CacheKey(provider, tariff)
        hit == got.value # None /\ key \in DOMAIN got.value
        local == IF bypass_cache THEN NoText
                 ELSE load_from_local(legacy.files, target_date)
        is_today == target_date = today
        csv_content == IF local # NoText THEN local ELSE fetched
        r == LegacyPricesOf(csv_content, provider, tariff, vat_rate)
        saved == IF local = NoText THEN save_to_local(legacy.files, target_date, fetched)
                 ELSE legacy.files
        call == [provider |-> provider, tariff |-> tariff, vat_rate |-> vat_rate,
                 target_date |-> target_date, bypass_cache |-> bypass_cache,
                 csv_content |-> NoText,
                 outcome |-> "raised", result |-> <<>>, source |-> "none"]
        source == IF local # NoText THEN "local"
                  ELSE IF is_today THEN "live" ELSE "historical"
    IN /\ legacy.n_calls < MaxCalls
       /\ IF hit \/ local # NoText THEN fetched = NoText
          ELSE fetched \in LegacyFetched(is_today)
       /\ legacy' =
            IF hit
            THEN [legacy EXCEPT !.n_calls = @ + 1, !.cache = got.cache,
                                !.cache_times = got.times,
                                !.last = [call EXCEPT !.outcome = "returned",
                                                      !.result = got.value[key],
                                                      !.source = "memory"]]
            ELSE IF csv_content = NoText
            THEN [legacy EXCEPT !.n_calls = @ + 1, !.cache = got.cache,
                                !.cache_times = got.times,
                                !.last = [call EXCEPT !.source = source]]
            ELSE IF r.raised
            THEN [legacy EXCEPT !.n_calls = @ + 1, !.cache = got.cache,
                                !.cache_times = got.times, !.files = saved,
                                !.last = [call EXCEPT !.csv_content = csv_content,
                                                      !.source = source]]
            ELSE [legacy EXCEPT !.n_calls = @ + 1,
                                !.cache = cache_put(got.cache, target_date, key, r.prices),
                                !.cache_times = Put(got.times, target_date, now),
                                !.files = saved,
                                !.last = [call EXCEPT !.csv_content = csv_content,
                                                      !.outcome = "returned",
                                                      !.result = r.prices,
                                                      !.source = source]]
       /\ UNCHANGED <<fetcher, parse, hourly, coordinator, hass>>

\* The two integrations have each their own fetcher, cache and data
\* directory: a window exercises one of them.
NextVariants ==
    \/ legacy = NoLegacy /\ Next
    \/ /\ FetcherInit
       /\ \E provider \in Providers, tariff \in Tariffs, vat_rate \in VatRates,
             target_date \in Days, bypass_cache \in BOOLEAN, fetched \in Names \cup {NoText} :
               LegacyGetPrices(provider, tariff, vat_rate, target_date, bypass_cache, fetched)

SpecVariants == Init /\ [][NextVariants]_vars

(***************************************************************************)
(* aggregate_to_hourly on lists assembled item by item                     *)
(***************************************************************************)

\* The list grows by one item
AppendItem(item) ==
    /\ hourly.phase = "list"
    /\ Len(hourly.prices) < MaxItems
    /\ hourly' = [hourly EXCEPT !.prices = Append(@, item)]
    /\ UNCHANGED <<fetcher, parse, legacy, coordinator, hass>>

\* aggregate_to_hourly(prices)
AggregateToHourly ==
    /\ hourly.phase = "list"
    /\ hourly' = [hourly EXCEPT !.phase = "done", !.out = aggregate_to_hourly(hourly.prices)]
    /\ UNCHANGED <<fetcher, parse, legacy, coordinator, hass>>

InitHourly ==
    /\ FetcherInit
    /\ parse = NoParse
    /\ hourly = [phase |-> "list", prices |-> <<>>, out |-> None]
    /\ legacy = NoLegacy
    /\ coordinator = NoCoordinator
    /\ hass = NoHass

NextHourly ==
    \/ \E item \in HourlyItems : AppendItem(item)
    \/ AggregateToHourly

SpecHourly == InitHourly /\ [][NextHourly]_vars

(***************************************************************************)
(* Properties                                                              *)
(***************************************************************************)

\* The HTTP requests a call has issued
Gets(c) == c.live_gets + c.commit_gets + c.file_gets
\* The response is an HTTP answer with this status
HasStatus(resp, status) == resp # None /\ resp.t = "http" /\ resp.status = status
\* The response is an HTTP 200
IsOk(resp) == HasStatus(resp, 200)
\* The entries a stored or fetched text yields for the call's provider, tariff and date
EntriesOf(name, c) ==
    IF name = NoText THEN <<>>
    ELSE PricesOf(name, c.provider, c.tariff, c.vat_rate, c.target_date).prices
\* The file of a date now
FileNow(date) == IF date \in DOMAIN files THEN files[date] ELSE NoText
\* The memory cache holds these prices for the call's key
CacheHolds(c, prices) ==
    /\ c.target_date \in DOMAIN cache
    /\ CacheKey(c.provider, c.tariff) \in DOMAIN cache[c.target_date]
    /\ cache[c.target_date][CacheKey(c.provider, c.tariff)] = prices
\* At its entry the call found a value for its key that was stored less than an hour before
FoundFresh(c) == c.entry_at >= 0 /\ c.started_at - c.entry_at < CACHE_DURATION
\* The remote fetch of a finished call failed
FetchFailed(c) ==
    \/ c.live_gets > 0 /\ ~IsOk(c.last_response)
    \/ c.commit_gets > 0 /\ c.file_gets = 0
         /\ (~IsOk(c.last_response) \/ c.last_response.body = <<>>)
    \/ c.file_gets > 0 /\ ~IsOk(c.last_response)

\* C1: a get_prices call with bypass_cache=false that returned R, immediately
\* followed by a call with the same arguments made less than an hour after R
\* was stored, returns the identical R and issues no HTTP request.
C1_RepeatIsServedFromCache ==
    \A s \in Slots :
        LET c == calls[s]
        IN (c.pc = "done" /\ c.repeats /\ FoundFresh(c))
              => (c.outcome = "returned" /\ c.identical /\ Gets(c) = 0)

C1_Witness ==
    \E s \in Slots :
        LET c == calls[s]
        IN /\ c.pc = "done" /\ c.repeats /\ FoundFresh(c)
           /\ c.identical /\ Len(c.result) > 0 /\ c.source = "memory"

\* C2 (as claimed): after a Today/Tomorrow call that got its content from
\* fetch_live, the file of the date holds the fetched text if no file existed or
\* the fetched text yields strictly more entries than the file did, and is
\* unchanged otherwise.
C2_WriteBackIffMore ==
    \A s \in Slots :
        LET c == calls[s]
            more == \/ c.file_before = NoText
                    \/ Len(c.result) > Len(EntriesOf(c.file_before, c))
        IN (c.pc = "done" /\ (c.is_today \/ c.is_tomorrow) /\ c.source = "live"
              /\ c.outcome = "returned")
              => FileNow(c.target_date) = IF more THEN c.csv_content ELSE c.file_before

C4_NotFoundIsNotRetried ==
    \A s \in Slots :
        LET c == calls[s]
        IN (c.live_gets = 1 /\ HasStatus(c.last_response, 404))
              => (c.pc = "done" /\ c.outcome = "raised" /\ c.waits = <<>>)

\* C5: fetch_current_csv issues at least one and at most three GETs, stops at
\* the first HTTP 200 and returns its body, and raises when the third attempt
\* fails too.
C5_AtMostThreeAttempts ==
    \A s \in Slots :
        LET c == calls[s]
        IN /\ c.live_gets <= max_retries
           /\ (c.live_gets > 0 /\ IsOk(c.last_response))
                 => (c.pc \notin {"fetch_current", "fetch_sleep"}
                     /\ c.csv_content = c.last_response.body)
           /\ (c.pc = "done" /\ c.live_gets = max_retries /\ ~IsOk(c.last_response))
                 => c.outcome = "raised"
           /\ (c.pc = "done" /\ c.source = "live") => c.live_gets >= 1
           /\ c.pc = "fetch_sleep" => c.live_gets = c.attempt + 1
           /\ c.pc = "fetch_current" => c.live_gets = c.attempt

C5_Witness ==
    \E s \in Slots :
        LET c == calls[s]
        IN /\ c.pc = "done" /\ c.live_gets = max_retries /\ IsOk(c.last_response)
           /\ c.outcome = "returned" /\ c.waits = <<1, 2>>

\* C6: when the remote fetch of a get_prices call fails, the call raises and
\* returns no sequence, whatever the memory cache and the local store hold.
C6_FailedFetchRaises ==
    \A s \in Slots :
        LET c == calls[s]
        IN (c.pc = "done" /\ FetchFailed(c))
              => (c.outcome = "raised" /\ c.result = <<>>)

C6_Witness ==
    \E s \in Slots :
        LET c == calls[s]
        IN /\ c.pc = "done" /\ FetchFailed(c) /\ c.outcome = "raised"
           /\ c.is_today /\ ~c.bypass_cache
           /\ c.file_before # NoText /\ Len(EntriesOf(c.file_before, c)) > 0

\* C7 (as claimed): a Today call with bypass_cache=false and no memory-cache hit calls
\* fetch_current_csv exactly when there is no file for the date or the file
\* yields fewer than 96 entries; with 96 or more it returns those entries,
\* caches them and issues no HTTP request.
C7_CompleteFileIsUsed ==
    \A s \in Slots :
        LET c == calls[s]
            held == EntriesOf(c.file_before, c)
        IN (c.pc = "done" /\ c.is_today /\ ~c.bypass_cache /\ c.source # "memory")
              => /\ (c.live_gets > 0)
                       <=> (c.file_before = NoText \/ Len(held) < CompleteCount)
                 /\ Len(held) >= CompleteCount
                       => /\ c.outcome = "returned" /\ c.result = held
                          /\ Gets(c) = 0 /\ CacheHolds(c, held)

\* C8: a Past call without a memory-cache hit issues no HTTP request and writes
\* no file when bypass_cache=false and a file exists; otherwise it calls
\* fetch_historical_csv once and, on success, the file holds the fetched text.
C8_PastSource ==
    \A s \in Slots :
        LET c == calls[s]
        IN (c.pc = "done" /\ c.is_past /\ c.source # "memory")
              => IF ~c.bypass_cache /\ c.file_before # NoText
                 THEN Gets(c) = 0 /\ ~c.saved /\ FileNow(c.target_date) = c.file_before
                 ELSE /\ c.commit_gets = 1 /\ c.file_gets <= 1 /\ c.live_gets = 0
                      /\ (c.file_gets = 1 /\ IsOk(c.last_response))
                            => /\ c.saved /\ c.csv_content = c.last_response.body
                               /\ FileNow(c.target_date) = c.csv_content

C8_Witness ==
    \E s \in Slots :
        LET c == calls[s]
        IN /\ c.pc = "done" /\ c.is_past /\ c.bypass_cache /\ c.outcome = "returned"
           /\ c.file_before # NoText /\ c.file_before # c.csv_content
           /\ FileNow(c.target_date) = c.csv_content

\* C9: a call with bypass_cache=true is never answered from the memory cache or
\* the local store: it fetches remotely (fetch_current_csv for Today/Tomorrow,
\* fetch_historical_csv for Past) and, when it returns, the memory cache holds
\* under its key the result parsed from the newly fetched text.
C9_BypassAlwaysFetches ==
    \A s \in Slots :
        LET c == calls[s]
        IN (c.pc = "done" /\ c.bypass_cache)
              => /\ c.source \notin {"memory", "local"}
                 /\ c.is_past => (c.commit_gets = 1 /\ c.live_gets = 0)
                 /\ (c.is_today \/ c.is_tomorrow) => (c.live_gets >= 1 /\ c.commit_gets = 0)
                 /\ c.outcome = "returned"
                       => /\ c.csv_content = c.last_response.body
                          /\ c.result = EntriesOf(c.csv_content, c)
                          /\ CacheHolds(c, c.result)

C9_Witness ==
    \E s \in Slots :
        LET c == calls[s]
        IN /\ c.pc = "done" /\ c.bypass_cache /\ c.is_today /\ c.outcome = "returned"
           /\ FoundFresh(c)
           /\ Len(EntriesOf(c.file_before, c)) >= CompleteCount
           /\ Len(c.result) < CompleteCount /\ CacheHolds(c, c.result)

\* C10 (as claimed): get_prices never returns from the memory cache a value
\* that was stored for its key an hour or more before the call.
C10_NoStaleHit ==
    \A s \in Slots :
        LET c == calls[s]
        IN (c.pc = "done" /\ c.source = "memory")
              => c.started_at - c.entry_at < CACHE_DURATION

EmptyListing(c) ==
    /\ c.commit_gets = 1 /\ c.file_gets = 0
    /\ IsOk(c.last_response) /\ c.last_response.body = <<>>

C13_HistoricalIsOneShot ==
    \A s \in Slots :
        LET c == calls[s]
        IN /\ c.commit_gets <= 1 /\ c.file_gets <= 1
           /\ (c.file_gets = 1 \/ c.pc = "hist_file")
                 => /\ c.commit_gets = 1 /\ Len(c.commits) >= 1
                    /\ c.commit_sha = c.commits[1]
           /\ c.file_gets = 1 => c.file_url = c.commits[1]
           /\ (c.commit_gets + c.file_gets > 0 /\ ~IsOk(c.last_response))
                 => (c.pc = "done" /\ c.outcome = "raised")

C13_Witness ==
    \E s \in Slots :
        LET c == calls[s]
        IN /\ c.pc = "done" /\ c.outcome = "raised" /\ c.file_gets = 1
           /\ Len(c.commits) = 2 /\ c.file_url = "sha2" /\ ~IsOk(c.last_response)

(***************************************************************************)
(* Properties of parse_csv                                                 *)
(***************************************************************************)

\* The row names the requested provider and the display name of the tariff
Requested(content, line, provider, tariff) ==
    /\ RowGet(content, line, "tarifario") = Str(provider)
    /\ RowGet(content, line, "opcao") = Str(TARIFF_MAPPING_REVERSE(tariff))
\* The text without the rows of other providers and tariffs
OnlyRequested(content, provider, tariff) ==
    [content EXCEPT !.rows =
        SelectSeq(@, LAMBDA line : Requested(content, line, provider, tariff))]
\* v is n / d rounded to the nearest integer, ties to even
Nearest(v, n, d) ==
    LET diff == IF v * d >= n THEN v * d - n ELSE n - v * d
    IN 2 * diff < d \/ (2 * diff = d /\ v % 2 = 0)

\* C16: for every text and every requested pair, parse_csv returns what it
\* returns for the text without the rows of other providers or tariffs: the
\* same prices, the same counters and the same raising or not, however
\* malformed or short those rows are.
C16_ForeignRowsAreInvisible ==
    parse.phase = "parsed"
       => parse.out = parse_csv(OnlyRequested(parse.content, parse.provider, parse.tariff),
                                parse.provider, parse.tariff, parse.vat_rate)

C16_Witness ==
    /\ parse.phase = "parsed" /\ ~parse.out.raised /\ Len(parse.out.prices) = 1
    /\ parse.out.skipped_invalid = 0 /\ parse.out.skipped_nan = 0
    /\ \E i \in 1..Len(parse.content.rows) :
          /\ ~Requested(parse.content, parse.content.rows[i], parse.provider, parse.tariff)
          /\ Len(parse.content.rows[i]) < Len(parse.content.header)

\* C17: parse_csv never raises, and after the parse the number of prices plus
\* the two counters equals the number of rows that match the filter: every
\* matching row that is malformed, blank or short is skipped and counted once.
C17_EveryRowIsAccounted ==
    parse.phase = "parsed"
       => /\ ~parse.out.raised
          /\ Len(parse.out.prices) + parse.out.skipped_invalid + parse.out.skipped_nan
                = Len(OnlyRequested(parse.content, parse.provider, parse.tariff).rows)

\* The same for the texts in which no matching row is shorter than the header
FullRowsAreAccounted ==
    (/\ parse.phase = "parsed"
     /\ \A i \in 1..Len(parse.content.rows) :
           Requested(parse.content, parse.content.rows[i], parse.provider, parse.tariff)
              => Len(parse.content.rows[i]) >= Len(parse.content.header))
       => /\ ~parse.out.raised
          /\ Len(parse.out.prices) + parse.out.skipped_invalid + parse.out.skipped_nan
                = Len(OnlyRequested(parse.content, parse.provider, parse.tariff).rows)

\* The row has a date and an interval that make a datetime, and three numbers
\* that float() accepts
WellFormed(content, line) ==
    LET dia == RowGet(content, line, "dia")
        itv == RowGet(content, line, "intervalo")
    IN /\ dia.k = "date" /\ Len(dia.parts) = 3
       /\ \A j \in 1..3 : dia.parts[j] # NotInt
       /\ itv.k = "interval"
       /\ ValidDatetime(dia.parts[3], dia.parts[2], dia.parts[1], itv.h, itv.mi)
       /\ \A name \in {"col", "omie", "tar"} :
             RowGet(content, line, name).k \in {"num", "nan"}
\* The valid rows of the requested pair, in the order of the text
ValidRows(content, provider, tariff) ==
    SelectSeq(content.rows,
              LAMBDA line : Requested(content, line, provider, tariff)
                               /\ WellFormed(content, line))
\* The record p carries the timestamp, the interval and the rounded col of the row
RecordOf(content, line, p) ==
    LET dia == RowGet(content, line, "dia")
        itv == RowGet(content, line, "intervalo")
        col == RowGet(content, line, "col")
    IN /\ p.datetime = [y |-> dia.parts[3], m |-> dia.parts[2], d |-> dia.parts[1],
                         h |-> itv.h, mi |-> itv.mi, s |-> 0]
       /\ p.interval = itv
       /\ IF col.k = "nan" THEN p.price = NaN
          ELSE p.price # NaN /\ Nearest(p.price, col.v, 10)

\* C18: when parse_csv returns, its output has one record for each valid row of
\* the requested pair and no other record, in the order of the rows: the
\* i-th record is the record of the i-th valid row, equal rows give equal
\* records and nothing is sorted.
C18_OutputFollowsValidRows ==
    (parse.phase = "parsed" /\ ~parse.out.raised)
       => LET good == ValidRows(parse.content, parse.provider, parse.tariff)
          IN /\ Len(parse.out.prices) = Len(good)
             /\ \A i \in 1..Len(good) :
                   RecordOf(parse.content, good[i], parse.out.prices[i])

C18_Witness ==
    /\ parse.phase = "parsed" /\ ~parse.out.raised
    /\ Len(parse.content.rows) = 2 /\ Len(parse.out.prices) = 2
    /\ parse.out.prices[1].datetime.mi = 15
    /\ parse.out.prices[2].datetime.mi = 0

IsPriceInterval(item) ==
    /\ {"datetime", "interval", "price", "price_w_vat"} \subseteq DOMAIN item
    /\ "k" \notin DOMAIN item.datetime
    /\ item.interval.k = "interval"
\* The date and hour of a timestamp
HourOf(dt) == <<dt.y, dt.m, dt.d, dt.h>>
\* The hours of the items of a list that carry a timestamp
HoursIn(prices) ==
    {HourOf(prices[i].datetime) :
        i \in {j \in 1..Len(prices) : /\ "datetime" \in DOMAIN prices[j]
                                       /\ "k" \notin DOMAIN prices[j].datetime}}
\* Hour a comes before hour b
Earlier(a, b) ==
    \E n \in 1..4 : a[n] < b[n] /\ \A j \in 1..(n - 1) : a[j] = b[j]

\* C20: aggregate_to_hourly returns for every list of price intervals; what it
\* returns holds exactly one record for each date-and-hour that occurs in the
\* list, each with minute and second zero, in strictly ascending order
\* whatever the order of the list: nothing for the empty list, one record for
\* a list within one hour.
C20_OneRecordPerHour ==
    hourly.phase = "done"
       => /\ (\A i \in 1..Len(hourly.prices) : IsPriceInterval(hourly.prices[i]))
                => ~hourly.out.raised
          /\ ~hourly.out.raised
                => LET out == hourly.out.hourly_prices
                   IN /\ Len(out) = Cardinality(HoursIn(hourly.prices))
                      /\ {HourOf(out[i].datetime) : i \in 1..Len(out)}
                            = HoursIn(hourly.prices)
                      /\ \A i \in 1..Len(out) :
                            out[i].datetime.mi = 0 /\ out[i].datetime.s = 0
                      /\ \A i \in 1..Len(out), j \in 1..Len(out) :
                            i < j => Earlier(HourOf(out[i].datetime),
                                             HourOf(out[j].datetime))

C20_Witness ==
    /\ hourly.phase = "done" /\ ~hourly.out.raised
    /\ Len(hourly.prices) = 3 /\ Len(hourly.out.hourly_prices) = 2
    /\ \A i \in 1..3 : IsPriceInterval(hourly.prices[i])
    /\ hourly.prices[1].datetime.d = 19 /\ hourly.prices[1].datetime.mi = 45
    /\ hourly.prices[2].datetime.d = 18 /\ hourly.prices[2].datetime.h = 1
    /\ hourly.prices[3].datetime.d = 19 /\ hourly.prices[3].datetime.mi = 0
    /\ hourly.out.hourly_prices[1].datetime.d = 18

(***************************************************************************)
(* Properties of what get_prices returns, in the two integrations          *)
(***************************************************************************)

\* Every record of the sequence is of the day
OnlyDay(prices, date) ==
    \A i \in 1..Len(prices) : DayOfTimestamp(prices[i].datetime) = date
\* The values a cache holds hold only records of their date key
CacheOnlyDay(c) ==
    \A date \in DOMAIN c : \A key \in DOMAIN c[date] : OnlyDay(c[date][key], date)
\* The hours of the records of a sequence
HoursOf(prices) == {HourOf(prices[i].datetime) : i \in 1..Len(prices)}
\* The hours of the requested pair that a text holds, whatever their date
HoursOfTextTable ==
    [n \in Names, provider \in Providers, tariff \in Tariffs |->
        HoursOf(parse_csv(TextOf(n), provider, tariff, 23).prices)]

\* C14 as stated: in both integrations every record that get_prices returns,
\* and every record of a value of the memory cache, is of the target date.
C14_OnlyTargetDate ==
    /\ \A s \in Slots :
          (calls[s].pc = "done" /\ calls[s].outcome = "returned")
             => OnlyDay(calls[s].result, calls[s].target_date)
    /\ CacheOnlyDay(cache)
    /\ legacy.last.outcome = "returned"
          => OnlyDay(legacy.last.result, legacy.last.target_date)
    /\ CacheOnlyDay(legacy.cache)

\* C14, amended: in portuguese_energy_price_tracker every record that
\* get_prices returns on any path, and every record of a value of the memory
\* cache, is of the target date; in energy_price_tracker get_prices does not
\* filter: what it returns and caches holds every hour of the requested pair
\* that the text holds, whatever its date.
C14_FilteredInOneIntegration ==
    /\ \A s \in Slots :
          (calls[s].pc = "done" /\ calls[s].outcome = "returned")
             => OnlyDay(calls[s].result, calls[s].target_date)
    /\ CacheOnlyDay(cache)
    /\ (legacy.last.outcome = "returned" /\ legacy.last.source # "memory")
          => HoursOf(legacy.last.result)
                = HoursOfTextTable[legacy.last.csv_content, legacy.last.provider,
                                   legacy.last.tariff]

C14_Witness ==
    \E s \in Slots :
        LET c == calls[s]
        IN /\ c.pc = "done" /\ c.outcome = "returned" /\ c.source = "live"
           /\ c.csv_content = "partial" /\ c.provider = "Galp"
           /\ Len(c.result) = 2
           /\ Cardinality(HoursOfTextTable["partial", "Galp", c.tariff]) = 3

\* Every record is at minute zero and the hours are strictly ascending, hence
\* at most one record per hour
Hourly(prices) ==
    /\ \A i \in 1..Len(prices) : prices[i].datetime.mi = 0
    /\ \A i \in 1..Len(prices), j \in 1..Len(prices) :
          i < j => Earlier(HourOf(prices[i].datetime), HourOf(prices[j].datetime))
CacheHourly(c) == \A date \in DOMAIN c : \A key \in DOMAIN c[date] : Hourly(c[date][key])
\* The valid rows of the requested pair and day that a text holds, in its order
DayRowsTable ==
    [n \in Names, provider \in Providers, tariff \in Tariffs, date \in Days |->
        SelectSeq(ValidRows(TextOf(n), provider, tariff),
                  LAMBDA line :
                      LET dia == RowGet(TextOf(n), line, "dia")
                      IN [y |-> dia.parts[3], m |-> dia.parts[2], d |-> dia.parts[1]]
                            = DateOf(date))]
\* The sequence holds one record of the parser for each of the rows, in order
OnePerRow(prices, content, rows) ==
    /\ Len(prices) = Len(rows)
    /\ \A i \in 1..Len(rows) :
          /\ RecordOf(content, rows[i], prices[i])
          /\ {"market_price", "tar_cost"} \subseteq DOMAIN prices[i]

\* C15 as stated: in both integrations what get_prices returns, and what it
\* stores in the memory cache, is hourly: every timestamp at minute zero, at
\* most one record per hour, ascending.
C15_ResultIsHourly ==
    /\ \A s \in Slots :
          (calls[s].pc = "done" /\ calls[s].outcome = "returned") => Hourly(calls[s].result)
    /\ CacheHourly(cache)
    /\ legacy.last.outcome = "returned" => Hourly(legacy.last.result)
    /\ CacheHourly(legacy.cache)

\* C15, amended: in energy_price_tracker what get_prices returns and caches is
\* the hourly aggregation: minute zero, at most one record per hour, ascending.
\* In portuguese_energy_price_tracker get_prices does not aggregate: what it
\* returns and caches is one parser record for each valid row of the pair and
\* of the target date, in the order of the rows.
C15_HourlyInOneIntegration ==
    /\ legacy.last.outcome = "returned" => Hourly(legacy.last.result)
    /\ CacheHourly(legacy.cache)
    /\ \A s \in Slots :
          LET c == calls[s]
          IN (c.pc = "done" /\ c.outcome = "returned" /\ c.source # "memory")
                => /\ OnePerRow(c.result, TextOf(c.csv_content),
                                DayRowsTable[c.csv_content, c.provider, c.tariff,
                                             c.target_date])
                   /\ CacheHolds(c, c.result)

C15_Witness ==
    \E s \in Slots :
        LET c == calls[s]
        IN /\ c.pc = "done" /\ c.outcome = "returned" /\ c.source = "live"
           /\ Len(c.result) = 2
           /\ HourOf(c.result[1].datetime) = HourOf(c.result[2].datetime)
           /\ c.result[2].datetime.mi = 15

(***************************************************************************)
(* Properties of the means of aggregate_to_hourly                          *)
(***************************************************************************)

\* The items of the list whose timestamp falls in the hour of dt
MembersOf(prices, dt) ==
    SelectSeq(prices, LAMBDA item : /\ "datetime" \in DOMAIN item
                                    /\ "k" \notin DOMAIN item.datetime
                                    /\ HourOf(item.datetime) = HourOf(dt))
\* The total of the values of a key over the members
RECURSIVE Total(_, _, _)
Total(members, key, n) ==
    IF n = 0 THEN 0 ELSE members[n][key] + Total(members, key, n - 1)
\* v is the mean of the values of a key over the members, rounded to 5 decimals
\* (NaN when a value is NaN)
IsMean(v, members, key) ==
    IF \E n \in 1..Len(members) : members[n][key] = NaN THEN v = NaN
    ELSE v # NaN /\ Nearest(v, Total(members, key, Len(members)), Len(members))

MeanOfPriceIntervals ==
    (/\ hourly.phase = "done"
     /\ \A n \in 1..Len(hourly.prices) : IsPriceInterval(hourly.prices[n]))
       => /\ ~hourly.out.raised
          /\ \A i \in 1..Len(hourly.out.hourly_prices) :
                LET r == hourly.out.hourly_prices[i]
                    members == MembersOf(hourly.prices, r.datetime)
                IN /\ Len(members) >= 1
                   /\ IsMean(r.price, members, "price")
                   /\ IsMean(r.price_w_vat, members, "price_w_vat")

(***************************************************************************)
(* Properties of the source get_prices turns to                            *)
(***************************************************************************)

\* The date of the call was two or more days ahead when the call started
Ahead(c) == c.pc # "idle" /\ c.target_date > c.started_day + 1
\* The date of the call was before the day the call started
Before(c) == c.pc # "idle" /\ c.target_date < c.started_day

\* C22 as stated: in both integrations a call for a date that is neither
\* today nor tomorrow never requests the live file.
C22_NeverLiveUnlessTodayOrTomorrow ==
    /\ \A s \in Slots : (Ahead(calls[s]) \/ Before(calls[s])) => calls[s].live_gets = 0
    /\ legacy.last.source = "live" => legacy.last.target_date = today

\* C22, amended: in energy_price_tracker only a call for today requests the
\* live file, every other date goes to the local store or the commit history.
\* In portuguese_energy_price_tracker a call for a date before today never
\* requests the live file, and a call for a date two or more days ahead never
\* reads or writes the local store and never asks the commit history: what it
\* returns without a memory hit comes from the live file.
C22_AheadIsFetchedLive ==
    /\ legacy.last.source = "live" => legacy.last.target_date = today
    /\ \A s \in Slots :
          LET c == calls[s]
          IN /\ Before(c) => c.live_gets = 0
             /\ Ahead(c)
                   => /\ c.commit_gets = 0 /\ c.file_gets = 0 /\ ~c.saved
                      /\ c.pc \in {"fetch_current", "fetch_sleep", "done"}
                      /\ (c.pc = "done" /\ c.outcome = "returned" /\ c.source # "memory")
                            => c.source = "live" /\ c.live_gets >= 1
                      /\ (c.target_date \in DOMAIN files
                            => files[c.target_date] = c.file_before)

C22_Witness ==
    \E s \in Slots :
        LET c == calls[s]
        IN /\ Ahead(c) /\ c.pc = "done" /\ c.outcome = "returned"
           /\ c.source = "live" /\ c.live_gets = 2 /\ ~c.bypass_cache

(***************************************************************************)
(* Backoff of fetch_current_csv                                            *)
(***************************************************************************)

\* The waits of a call, in order, are 1, 2, 4, ... seconds
Backoff(waits) == \A k \in 1..Len(waits) : waits[k] = Pow2(k - 1)
\* The call ended with the error of fetch_current_csv
LiveFailed(c) ==
    c.pc = "done" /\ c.outcome = "raised" /\ c.live_gets > 0
       /\ c.error = LiveError(c.last_response)

\* C23: in fetch_current_csv every failed attempt k but the last is followed
\* by a sleep of 2^(k-1) seconds, attempt k+1 starts only after that sleep has
\* returned, and the last failed attempt raises the error that names its
\* cause (timeout or status) without a sleep.
C23_BackoffBetweenAttempts ==
    \A s \in Slots :
        LET c == calls[s]
        IN /\ Backoff(c.waits)
           /\ c.pc = "fetch_current"
                 => c.live_gets = c.attempt /\ Len(c.waits) = c.attempt
           /\ c.pc = "fetch_sleep"
                 => /\ c.live_gets = c.attempt + 1 /\ Len(c.waits) = c.live_gets
                    /\ c.live_gets < max_retries
                    /\ ~(c.last_response.t = "http" /\ c.last_response.status = 200)
           /\ (c.pc = "done" /\ c.live_gets > 0)
                 => /\ Len(c.waits) = c.live_gets - 1
                    /\ c.live_gets <= max_retries
           /\ (c.pc = "done" /\ c.live_gets > 0
                  /\ ~(c.last_response.t = "http" /\ c.last_response.status = 200))
                 => /\ LiveFailed(c)
                    /\ c.live_gets = max_retries
                    /\ c.waits = <<1, 2>>

C23_Witness ==
    \E s \in Slots :
        LET c == calls[s]
        IN /\ LiveFailed(c) /\ c.waits = <<1, 2>> /\ c.live_gets = 3
           /\ c.last_response.t = "http" /\ c.last_response.status = 500
           /\ c.error = "Error fetching CSV after all retries: Failed to fetch CSV: HTTP 500"

(***************************************************************************)
(* Calls for tomorrow                                                      *)
(***************************************************************************)

\* The date of the call was the day after the day the call started, and the
\* memory cache did not answer it
TomorrowMiss(c) ==
    c.pc # "idle" /\ c.target_date = c.started_day + 1
       /\ ~(c.pc = "done" /\ c.source = "memory")
\* The response is the 200 that ends fetch_current_csv
IsOkResponse(resp) == resp.t = "http" /\ resp.status = 200

\* C24: a call for tomorrow that the memory cache does not answer never takes
\* its content from the local store, with or without bypass_cache and
\* whatever file the store holds: it runs fetch_current_csv once, and what
\* it returns comes from the live file.
C24_TomorrowIsFetchedLive ==
    \A s \in Slots :
        LET c == calls[s]
        IN TomorrowMiss(c)
              => /\ c.pc \in {"fetch_current", "fetch_sleep", "check_existing", "save_new", "done"}
                 /\ c.commit_gets = 0 /\ c.file_gets = 0
                 /\ c.source \in {"none", "live"}
                 /\ c.pc \in {"check_existing", "save_new", "done"}
                       => /\ c.live_gets >= 1 /\ c.live_gets <= max_retries
                          /\ c.live_gets = c.attempt + 1
                 /\ c.pc \in {"check_existing", "save_new"}
                       => /\ c.source = "live" /\ IsOkResponse(c.last_response)
                          /\ c.csv_content = c.last_response.body
                 /\ (c.pc = "done" /\ c.outcome = "returned")
                       => /\ c.source = "live" /\ IsOkResponse(c.last_response)
                          /\ c.result = PricesOf(c.last_response.body, c.provider, c.tariff,
                                                 c.vat_rate, c.target_date).prices

C24_Witness ==
    \E s \in Slots :
        LET c == calls[s]
        IN /\ TomorrowMiss(c) /\ c.pc = "done" /\ c.outcome = "returned"
           /\ ~c.bypass_cache /\ TruthyText(c.file_before)
           /\ Len(PricesOf(c.file_before, c.provider, c.tariff, c.vat_rate,
                           c.target_date).prices) > 0
           /\ c.source = "live" /\ c.result # <<>>

(***************************************************************************)
(* The caching strategy of the docstring of get_prices                     *)
(***************************************************************************)

\* The date of the call was the day after the day the call started
ForTomorrow(c) == c.pc # "idle" /\ c.target_date = c.started_day + 1
\* The date of the call was the day the call started
ForToday(c) == c.pc # "idle" /\ c.target_date = c.started_day

\* C25: a call for tomorrow keeps its data in the memory cache only, it
\* never creates or overwrites a file of the local store.
C25_TomorrowIsNotPersisted ==
    \A s \in Slots :
        ForTomorrow(calls[s])
           => /\ calls[s].pc # "save_new"
              /\ ~calls[s].saved
              /\ FileNow(calls[s].target_date) = calls[s].file_before

\* C26: a call for today writes the file of the local store only when the
\* content it fetched holds 96 or more entries of its provider, tariff and date.
C26_TodayWrittenOnlyWhenComplete ==
    \A s \in Slots :
        LET c == calls[s]
        IN ForToday(c)
              => /\ c.pc = "save_new" => Complete(c.prices)
                 /\ (c.pc = "done" /\ c.saved) => Complete(c.result)

(***************************************************************************)
(* Calls that end with an error                                            *)
(***************************************************************************)

\* The call ended by raising
Failed(c) == c.pc = "done" /\ c.outcome = "raised"
\* The memory cache holds for the call's key what it held when the call
\* started, or nothing
MemoryAsBefore(c) ==
    LET k == <<c.target_date, CacheKey(c.provider, c.tariff)>>
    IN k \in DOMAIN entry_time => entry_time[k] = c.entry_at

\* A call that ends with an error has stored nothing in the memory cache.
FailureStoresNothingInMemory ==
    \A s \in Slots : Failed(calls[s]) => MemoryAsBefore(calls[s])

\* C30: a call that ends with an error leaves the local store and the memory
\* cache as they were: the file of its date has the content it had when the
\* call started, and the cache holds no value the call stored.
C30_FailureLeavesNoTrace ==
    \A s \in Slots :
        Failed(calls[s])
           => /\ ~calls[s].saved
              /\ FileNow(calls[s].target_date) = calls[s].file_before
              /\ MemoryAsBefore(calls[s])

(***************************************************************************)
(* Specification: the update cycles of one coordinator over the hours of   *)
(* a day. The fetcher is seen through the one thing the cycle decides for  *)
(* it: whether the request for tomorrow may be answered by the memory      *)
(* cache. "rows" is a list with entries of tomorrow, "empty" the empty     *)
(* list the fetcher returns while the live file has none.                  *)
(***************************************************************************)

\* should_bypass_cache = now.hour >= 13
ShouldBypassCache(hour) == hour >= 13

\* CSVDataCache.get for tomorrow's key: nothing with bypass_cache, nothing
\* when absent or an hour old
CachedTomorrow(c, bypass_cache) ==
    IF bypass_cache \/ c.cached = "none" \/ c.age >= 1 THEN "none" ELSE c.cached

\* Tomorrow's entries are at hand before a cycle: the coordinator's data has
\* them and the memory cache holds them, less than an hour old
TomorrowAvailable(c) == c.data = "rows" /\ c.cached = "rows" /\ c.age < 1

\* The source adds tomorrow's rows to the live file
Publish ==
    /\ coordinator.phase = "on"
    /\ ~coordinator.published
    /\ coordinator' = [coordinator EXCEPT !.published = TRUE]
    /\ UNCHANGED <<fetcher, parse, hourly, legacy, hass>>

\* An hour passes; at midnight tomorrow is a new date, of which nothing is
\* published, cached or held
HourPasses ==
    /\ coordinator.phase = "on"
    /\ coordinator' =
          IF coordinator.hour = 23
          THEN [coordinator EXCEPT !.hour = 0, !.published = FALSE, !.cached = "none",
                                   !.age = 0, !.data = "none"]
          ELSE [coordinator EXCEPT !.hour = @ + 1,
                                   !.age = IF coordinator.cached = "none" THEN 0 ELSE 1]
    /\ UNCHANGED <<fetcher, parse, hourly, legacy, hass>>

\* _async_update_data: get_prices for today, then get_prices for tomorrow
\* with bypass_cache = should_bypass_cache; an exception of either becomes
\* UpdateFailed and leaves the data as it was
UpdateData(today_ok, live_ok) ==
    /\ coordinator.phase = "on"
    /\ LET c == coordinator
           should_bypass_cache == ShouldBypassCache(c.hour)
           cached_data == CachedTomorrow(c, should_bypass_cache)
           fetched == cached_data = "none"
           expired == ~should_bypass_cache /\ c.cached # "none" /\ c.age >= 1
           live == IF c.published THEN "rows" ELSE "empty"
           tomorrow_prices == IF fetched THEN live ELSE cached_data
           update == [ran |-> TRUE, hour |-> c.hour, available |-> TomorrowAvailable(c),
                      should_bypass_cache |-> should_bypass_cache, fetched |-> fetched,
                      failed |-> FALSE, tomorrow_prices |-> tomorrow_prices]
       IN coordinator' =
            IF ~today_ok
            THEN [c EXCEPT !.last = [NoUpdate EXCEPT !.hour = c.hour, !.failed = TRUE]]
            ELSE IF fetched /\ ~live_ok
            THEN [c EXCEPT !.cached = IF expired THEN "none" ELSE @,
                           !.age = IF expired THEN 0 ELSE @,
                           !.last = [update EXCEPT !.failed = TRUE,
                                                   !.tomorrow_prices = "none"]]
            ELSE [c EXCEPT !.cached = tomorrow_prices,
                           !.age = IF fetched THEN 0 ELSE @,
                           !.data = tomorrow_prices,
                           !.last = update]
    /\ UNCHANGED <<fetcher, parse, hourly, legacy, hass>>

InitCoordinator ==
    /\ FetcherInit
    /\ parse = NoParse
    /\ hourly = NoHourly
    /\ legacy = NoLegacy
    /\ coordinator = [NoCoordinator EXCEPT !.phase = "on"]
    /\ hass = NoHass

NextCoordinator ==
    \/ Publish
    \/ HourPasses
    \/ \E today_ok, live_ok \in BOOLEAN : UpdateData(today_ok, live_ok)

SpecCoordinator == InitCoordinator /\ [][NextCoordinator]_vars

\* The request for tomorrow bypasses the memory cache exactly from 13:00 on,
\* and a bypassing request always goes to the network.
BypassFollowsTheHour ==
    coordinator.last.ran
       => /\ coordinator.last.should_bypass_cache = (coordinator.last.hour >= 13)
          /\ coordinator.last.should_bypass_cache => coordinator.last.fetched

\* C28: in an update cycle tomorrow's prices are requested with bypass_cache
\* only at or after 13:00 and while tomorrow's data is not yet available;
\* before 13:00, and once tomorrow's data is available, the request does not
\* bypass the cache, so that repeated cycles stop forcing a network fetch.
C28_BypassUntilAvailable ==
    coordinator.last.ran
       => /\ coordinator.last.should_bypass_cache
                = (coordinator.last.hour >= 13 /\ ~coordinator.last.available)
          /\ coordinator.last.available => ~coordinator.last.fetched

(***************************************************************************)
(* Specification: config entries are added to the host in any order and    *)
(* the select and sensor platforms are set up for each of them             *)
(***************************************************************************)

\* hass.config_entries.async_entries(DOMAIN): the entries in the host's order
async_entries == hass.entries
EntrySet == {async_entries[i] : i \in 1..Len(async_entries)}

\* select.py: sorted(all_entries, key=lambda e: e.entry_id)[0].entry_id
SortedFirst == CHOOSE e \in EntrySet : \A f \in EntrySet : e <= f
\* sensor.py: config_entries[0].entry_id
ListedFirst == async_entries[1]

\* The user adds an integration entry
AddEntry(entry) ==
    /\ hass.phase = "on"
    /\ entry \notin EntrySet
    /\ hass' = [hass EXCEPT !.entries = Append(@, entry),
                            !.migration_version = Put(@, entry, 0)]
    /\ UNCHANGED <<fetcher, parse, hourly, legacy, coordinator>>

\* select.py, async_setup_entry(hass, entry, async_add_entities)
SetupSelect(entry) ==
    /\ hass.phase = "on"
    /\ entry \in EntrySet \ hass.select_setup
    /\ hass' = [hass EXCEPT !.select_setup = @ \cup {entry},
                            !.select_for = IF entry # SortedFirst THEN @
                                           ELSE @ \cup {entry},
                            !.registry = IF entry # SortedFirst THEN @
                                         ELSE @ \cup {"select"}]
    /\ UNCHANGED <<fetcher, parse, hourly, legacy, coordinator>>

\* sensor.py, async_setup_entry(hass, entry, async_add_entities)
SetupSensor(entry) ==
    /\ hass.phase = "on"
    /\ entry \in EntrySet \ hass.sensor_setup
    /\ LET is_first_entry == Len(async_entries) > 0 /\ ListedFirst = entry
       IN hass' = [hass EXCEPT !.sensor_setup = @ \cup {entry},
                               !.routing_for = IF is_first_entry THEN @ \cup {entry}
                                               ELSE @,
                               !.registry = IF is_first_entry THEN @ \cup {"routing"}
                                            ELSE @]
    /\ UNCHANGED <<fetcher, parse, hourly, legacy, coordinator>>

\* The host restarts: the entries stay, in their order, and every platform
\* is set up anew
Restart ==
    /\ hass.phase = "on"
    /\ hass.select_setup # {} \/ hass.sensor_setup # {}
    /\ hass' = [hass EXCEPT !.select_setup = {}, !.sensor_setup = {},
                            !.select_for = {}, !.routing_for = {}]
    /\ UNCHANGED <<fetcher, parse, hourly, legacy, coordinator>>

InitSetup ==
    /\ FetcherInit
    /\ parse = NoParse
    /\ hourly = NoHourly
    /\ legacy = NoLegacy
    /\ coordinator = NoCoordinator
    /\ hass = [NoHass EXCEPT !.phase = "on"]

NextSetup ==
    \/ \E entry \in EntryIds : AddEntry(entry)
    \/ \E entry \in EntryIds : SetupSelect(entry)
    \/ \E entry \in EntryIds : SetupSensor(entry)
    \/ Restart

SpecSetup == InitSetup /\ [][NextSetup]_vars

\* Both platforms have been set up for every entry the host holds
AllSetUp ==
    /\ EntrySet # {}
    /\ hass.select_setup = EntrySet
    /\ hass.sensor_setup = EntrySet
\* The host lists the entries in the order of their entry_id
ListedInIdOrder ==
    \A i, j \in 1..Len(async_entries) : i < j => async_entries[i] < async_entries[j]

\* When the host lists the entries in the order of their entry_id, the select
\* and the routing sensors are created for the first entry and for no other.
SameEntryWhenListedInIdOrder ==
    (AllSetUp /\ ListedInIdOrder)
       => hass.select_for = {ListedFirst} /\ hass.routing_for = {ListedFirst}

\* C29: whatever entries the host holds and in whatever order it lists them,
\* the select entity active_provider and the ActiveProvider routing sensors
\* are created for the same config entry, and each for exactly one entry.
C29_SelectAndRoutingShareAnEntry ==
    AllSetUp
       => /\ hass.select_for = hass.routing_for
          /\ Cardinality(hass.select_for) = 1
          /\ Cardinality(hass.routing_for) = 1

(***************************************************************************)
(* Specification: two get_prices coroutines of one fetcher, for today or   *)
(* tomorrow, interleaved at their awaits                                   *)
(***************************************************************************)

\* The dates that are today or tomorrow in this window
NearDays == {1, 2}

NextInterleaved ==
    \/ \E s \in Slots, provider \in Providers, tariff \in Tariffs, vat_rate \in VatRates,
          target_date \in NearDays, bypass_cache \in BOOLEAN :
            Start(s, Cardinality(Slots), provider, tariff, vat_rate, target_date,
                  bypass_cache)
    \/ \E s \in Slots : LoadToday(s)
    \/ \E s \in Slots, resp \in LiveResponses : FetchCurrent(s, resp)
    \/ \E s \in Slots : FetchSleep(s)
    \/ \E s \in Slots : CheckExisting(s)
    \/ \E s \in Slots : SaveNew(s)

SpecInterleaved == Init /\ [][NextInterleaved]_vars

\* The entries of the call's pair and date in a text of the local store
CountIn(name, c) ==
    Len(PricesOf(name, c.provider, c.tariff, c.vat_rate, c.target_date).prices)

\* C27: under interleaving the comparison of the write-back is made against
\* the file as the call read it, not as it is when the call writes: every
\* write is justified by the call's own reading (no file, or fewer entries
\* than the new content), and a call can overwrite a file that by then holds
\* at least as many entries as the content it writes.
C27_ComparisonIsAgainstTheFileRead ==
    \A s \in Slots :
        LET c == calls[s]
        IN (c.pc = "done" /\ c.saved)
              => /\ FileNow(c.target_date) # NoText
                 /\ TruthyText(c.existing_file)
                       => CountIn(c.existing_file, c) < Len(c.result)

C27_Witness ==
    \E s \in Slots :
        LET c == calls[s]
        IN /\ c.pc = "done" /\ c.saved /\ c.outcome = "returned"
           /\ TruthyText(c.overwritten) /\ c.overwritten # c.existing_file
           /\ CountIn(c.overwritten, c) >= Len(c.result)
           /\ CountIn(c.overwritten, c) > CountIn(c.csv_content, c)
           /\ \E t \in Slots \ {s} :
                 /\ calls[t].target_date = c.target_date /\ calls[t].saved
                 /\ calls[t].csv_content = c.overwritten

(***************************************************************************)
(* Calls that make no request                                              *)
(***************************************************************************)

\* C31: a get_prices call that has issued no HTTP request (memory cache hit,
\* complete file of today, past date served from its file) has not created,
\* overwritten or deleted a file of the local store.
C31_NoRequestNoWrite ==
    \A s \in Slots :
        LET c == calls[s]
        IN (c.pc # "idle" /\ Gets(c) = 0)
              => /\ ~c.saved
                 /\ c.pc \notin {"save_past", "save_new"}
                 /\ FileNow(c.target_date) = c.file_before
                 /\ c.pc = "done" /\ c.outcome = "returned"
                       => c.source \in {"memory", "local"}

C31_Witness ==
    \E s \in Slots :
        LET c == calls[s]
        IN /\ c.pc = "done" /\ c.outcome = "returned" /\ Gets(c) = 0
           /\ c.is_past /\ c.source = "local" /\ c.result # <<>>
           /\ c.file_before # NoText /\ FileNow(c.target_date) = c.file_before

(***************************************************************************)
(* The file of a date is shared by the pairs                               *)
(***************************************************************************)

\* The entries of another provider, for the call's tariff and date, in a text
CountOf(name, provider, c) ==
    IF name = NoText THEN 0 ELSE CountIn(name, [c EXCEPT !.provider = provider])

\* C32: a write-back made while resolving one pair never reduces, in the file
\* of the date, the number of entries of another pair; a file that is
\* complete for a pair stays complete for it under calls for other pairs.
C32_OtherPairsKeepTheirEntries ==
    \A s \in Slots :
        LET c == calls[s]
        IN (c.pc = "done" /\ c.saved /\ (c.is_today \/ c.is_tomorrow))
              => \A provider \in Providers \ {c.provider} :
                    /\ CountOf(c.csv_content, provider, c) >= CountOf(c.overwritten, provider, c)
                    /\ CountOf(c.overwritten, provider, c) >= CompleteCount
                          => CountOf(FileNow(c.target_date), provider, c) >= CompleteCount

(***************************************************************************)
(* Specification: the sequential calls, with every await of a running call *)
(* eventually resumed (every request is answered or times out, every sleep *)
(* and every file operation ends)                                          *)
(***************************************************************************)

\* A step of the running call
CallStep ==
    \/ LoadPast(1)
    \/ \E resp \in CommitResponses : HistCommits(1, resp)
    \/ \E resp \in FileResponses : HistFile(1, resp)
    \/ SavePast(1)
    \/ LoadToday(1)
    \/ \E resp \in LiveResponses : FetchCurrent(1, resp)
    \/ FetchSleep(1)
    \/ CheckExisting(1)
    \/ SaveNew(1)

\* The calls alone: the clock stands still while they run
NextCalls ==
    \/ \E provider \in Providers, tariff \in Tariffs, vat_rate \in VatRates,
          target_date \in Days, bypass_cache \in BOOLEAN :
            Start(1, MaxCalls, provider, tariff, vat_rate, target_date, bypass_cache)
    \/ CallStep

SpecFair == Init /\ [][NextCalls]_vars /\ WF_vars(CallStep)

\* The requests of a call are within the bounds of its two fetch functions
RequestsBounded(c) ==
    /\ c.live_gets <= max_retries
    /\ c.commit_gets <= 1 /\ c.file_gets <= 1
    /\ c.live_gets = 0 \/ c.commit_gets + c.file_gets = 0
    /\ c.file_gets = 1 => c.commit_gets = 1

\* C33: when every request terminates, every get_prices call terminates,
\* returned or raised, after at most 3 GETs of the live file or at most 2
\* historical requests, never both kinds in one call.
C33_EveryCallTerminates ==
    /\ [](\A s \in Slots : RequestsBounded(calls[s]))
    /\ \A s \in Slots :
          Running(calls[s])
             ~> (calls[s].pc = "done" /\ calls[s].outcome \in {"returned", "raised"})

C33_Witness ==
    \E s \in Slots :
        LET c == calls[s]
        IN /\ c.pc = "done" /\ c.outcome = "returned" /\ c.live_gets = max_retries
           /\ c.saved /\ c.is_tomorrow /\ c.commit_gets = 0

(***************************************************************************)
(* The memory cache under interleaved calls                                *)
(***************************************************************************)

\* Both calls have returned, for one date and two different pairs
BothReturned(c, d) ==
    /\ c.pc = "done" /\ c.outcome = "returned"
    /\ d.pc = "done" /\ d.outcome = "returned"
    /\ c.target_date = d.target_date
    /\ CacheKey(c.provider, c.tariff) # CacheKey(d.provider, d.tariff)

\* C34: when two interleaved calls for one date and two different pairs
\* have both returned, the memory cache holds under each pair's key that
\* pair's own result: neither store removed or replaced the other's value.
C34_NoLostUpdate ==
    BothReturned(calls[1], calls[2])
       => /\ CacheHolds(calls[1], calls[1].result)
          /\ CacheHolds(calls[2], calls[2].result)

C34_Witness ==
    /\ BothReturned(calls[1], calls[2])
    /\ calls[1].source = "live" /\ calls[2].source = "live"
    /\ calls[1].file_before = NoText /\ calls[2].file_before = NoText
    /\ calls[1].saved /\ calls[2].saved
    /\ calls[1].result # <<>> /\ calls[2].result # <<>>
    /\ calls[1].result # calls[2].result

(***************************************************************************)
(* Specification: config entries are added and set up one after another,   *)
(* each setup running the entity migrations before the platforms. The      *)
(* registry holds "select" for the entity with unique_id active_provider   *)
(* and "routing" for the ActiveProvider routing sensors.                   *)
(***************************************************************************)

\* The last migration that removes the select entity or the routing sensors
SelectMigration == 5
RoutingMigration == 3

\* _async_migrate_entities: migrations v1 and v5 remove the select entity,
\* v2 and v3 the routing sensors, of whichever entry they are
Migrated(registry, migration_version) ==
    {e \in registry :
        /\ e = "select" => migration_version >= SelectMigration
        /\ e = "routing" => migration_version >= RoutingMigration}

\* async_setup_entry of __init__.py: the migrations, then the select and the
\* sensor platform
SetupEntry(entry) ==
    /\ hass.phase = "on"
    /\ entry \in EntrySet \ (hass.select_setup \cup hass.sensor_setup)
    /\ LET kept == Migrated(hass.registry, hass.migration_version[entry])
           is_first_entry == Len(async_entries) > 0 /\ ListedFirst = entry
           with_select == IF entry = SortedFirst THEN {"select"} ELSE {}
           with_routing == IF is_first_entry THEN {"routing"} ELSE {}
       IN hass' = [hass EXCEPT
                     !.migration_version = Put(@, entry, 6),
                     !.select_setup = @ \cup {entry},
                     !.sensor_setup = @ \cup {entry},
                     !.select_for = IF entry = SortedFirst THEN @ \cup {entry} ELSE @,
                     !.routing_for = IF is_first_entry THEN @ \cup {entry} ELSE @,
                     !.registry = kept \cup with_select \cup with_routing]
    /\ UNCHANGED <<fetcher, parse, hourly, legacy, coordinator>>

NextMigrate ==
    \/ \E entry \in EntryIds : AddEntry(entry)
    \/ \E entry \in EntryIds : SetupEntry(entry)
    \/ Restart

SpecMigrate == InitSetup /\ [][NextMigrate]_vars

\* An entry that has run its migrations never removes the entities again.
MigratedEntryRemovesNothing ==
    [][\A entry \in EntryIds :
          (SetupEntry(entry) /\ hass.migration_version[entry] = 6)
             => hass.registry \subseteq hass'.registry]_vars

\* C35: after any sequence of entry setups, once every entry the host holds
\* (at least one) is set up, the registry holds the select entity active_provider and the routing
\* sensors; the setup of a newly added entry removes nothing that the
\* platform setup of an earlier entry created.
C35_EntitiesSurviveLaterSetups ==
    AllSetUp => hass.registry = {"select", "routing"}

(***************************************************************************)
(* Specification: the ActiveProviderSelect entity while coordinators come  *)
(* and go in hass.data[DOMAIN]                                             *)
(***************************************************************************)

\* coordinator.display_name: a name, or the empty string
DisplayNames == {"", "EDP", "Galp"}
NoProviders == "No providers configured"
\* The order in which sorted() puts the names
NameRank(name) ==
    CASE name = "" -> 0 [] name = "EDP" -> 1 [] name = "Galp" -> 2 [] OTHER -> 3

Range(seq) == {seq[i] : i \in 1..Len(seq)}

\* sorted(options)
Sorted(names) ==
    CHOOSE q \in [1..Cardinality(names) -> names] :
        \A i, j \in 1..Cardinality(names) : i < j => NameRank(q[i]) < NameRank(q[j])

\* _update_options, the loop: the display names that are not empty, each once
Collected(data) == {data[e] : e \in DOMAIN data} \ {""}

\* Mutant of CurrentAfter: a selection that no longer exists is kept
CurrentAfter_KeepsSelection(current_option, options) ==
    IF current_option = NoText THEN options[1] ELSE current_option

\* _update_options, "Set current option to first if not set or if previous
\* selection no longer exists"
CurrentAfter(current_option, options) ==
    IF current_option = NoText \/ current_option = ""
       \/ current_option \notin Range(options)
    THEN options[1] ELSE current_option

\* async_setup_entry: hass.data[DOMAIN][entry.entry_id] = coordinator
AddCoordinator(entry, display_name) ==
    /\ hass.phase = "select"
    /\ entry \notin DOMAIN hass.data
    /\ hass' = [hass EXCEPT !.data = Put(@, entry, display_name)]
    /\ UNCHANGED <<fetcher, parse, hourly, legacy, coordinator>>

\* async_unload_entry: hass.data[DOMAIN].pop(entry.entry_id)
RemoveCoordinator(entry) ==
    /\ hass.phase = "select"
    /\ entry \in DOMAIN hass.data
    /\ hass' = [hass EXCEPT !.data = Del(@, entry)]
    /\ UNCHANGED <<fetcher, parse, hourly, legacy, coordinator>>

\* ActiveProviderSelect._update_options
UpdateOptions ==
    /\ hass.phase = "select"
    /\ LET options == Collected(hass.data)
       IN hass' =
            IF options = {}
            THEN [hass EXCEPT !.options = <<NoProviders>>, !.current_option = NoProviders,
                              !.updated = TRUE]
            ELSE [hass EXCEPT !.options = Sorted(options),
                              !.current_option = CurrentAfter(@, Sorted(options)),
                              !.updated = TRUE]
    /\ UNCHANGED <<fetcher, parse, hourly, legacy, coordinator>>

\* ActiveProviderSelect.async_select_option(option)
SelectOption(option) ==
    /\ hass.phase = "select"
    /\ hass' = IF option \in Range(hass.options)
               THEN [hass EXCEPT !.current_option = option]
               ELSE hass
    /\ UNCHANGED <<fetcher, parse, hourly, legacy, coordinator>>

InitSelect ==
    /\ FetcherInit
    /\ parse = NoParse
    /\ hourly = NoHourly
    /\ legacy = NoLegacy
    /\ coordinator = NoCoordinator
    /\ hass = [NoHass EXCEPT !.phase = "select"]

NextSelect ==
    \/ \E entry \in EntryIds, display_name \in DisplayNames :
          AddCoordinator(entry, display_name)
    \/ \E entry \in EntryIds : RemoveCoordinator(entry)
    \/ UpdateOptions
    \/ \E option \in DisplayNames \cup {NoProviders} : SelectOption(option)

SpecSelect == InitSelect /\ [][NextSelect]_vars

\* C36: after the first _update_options, and after any later _update_options
\* and async_select_option, options is not empty and current_option is one
\* of them; async_select_option with a value that is not an option changes
\* neither.
C36_CurrentIsAnOption ==
    /\ [](hass.updated
            => /\ hass.options # <<>>
               /\ hass.current_option \in Range(hass.options)
               /\ "" \notin Range(hass.options))
    /\ [][\A option \in DisplayNames \cup {NoProviders} :
            (SelectOption(option) /\ option \notin Range(hass.options))
               => /\ hass'.options = hass.options
                  /\ hass'.current_option = hass.current_option]_vars

C36_Witness ==
    /\ hass.updated
    /\ hass.options = <<"Galp">>
    /\ hass.current_option = "Galp"
    /\ \E e \in DOMAIN hass.data : hass.data[e] = ""

(***************************************************************************)
(* The refresh_data service (__init__.py, handle_refresh_data)             *)
(***************************************************************************)

\* call.data.get("date"): no date, or a date
ServiceDates == {NoText, "2024-01-15"}

\* The keys of hass.data[DOMAIN] without one of them, in insertion order
Popped(seq, entry) == SelectSeq(seq, LAMBDA e : e # entry)

\* Mutant of AfterRefresh: the exception of an instance leaves the handler
AfterRefresh_Propagates(s, coord, outcome) ==
    LET tried == [s EXCEPT !.attempted =
                     Append(@, [coord |-> coord, target_date |-> s.target_datetime,
                                bypass_cache |-> TRUE])]
    IN IF outcome = "ok"
       THEN [tried EXCEPT !.success_count = @ + 1]
       ELSE [tried EXCEPT !.raised = @ \cup {coord}, !.phase = "raised"]

\* handle_refresh_data, one pass of "for coord in instances": the try with
\* await coord.refresh_data(target_date=target_datetime, bypass_cache=True) and
\* its except Exception
AfterRefresh(s, coord, outcome) ==
    LET tried == [s EXCEPT !.attempted =
                     Append(@, [coord |-> coord, target_date |-> s.target_datetime,
                                bypass_cache |-> TRUE])]
    IN IF outcome = "ok"
       THEN [tried EXCEPT !.success_count = @ + 1]
       ELSE [tried EXCEPT !.raised = @ \cup {coord}, !.failed_count = @ + 1]

\* async_setup_entry: hass.data[DOMAIN][entry.entry_id] = coordinator, a new
\* key goes to the end of the dict
LoadEntry(entry) ==
    /\ hass.phase = "service"
    /\ entry \notin Range(hass.loaded)
    /\ hass' = [hass EXCEPT !.loaded = Append(@, entry)]
    /\ UNCHANGED <<fetcher, parse, hourly, legacy, coordinator>>

\* async_unload_entry: hass.data[DOMAIN].pop(entry.entry_id)
UnloadEntry(entry) ==
    /\ hass.phase = "service"
    /\ entry \in Range(hass.loaded)
    /\ hass' = [hass EXCEPT !.loaded = Popped(@, entry)]
    /\ UNCHANGED <<fetcher, parse, hourly, legacy, coordinator>>

\* handle_refresh_data up to the loop: target_datetime, instances, the early
\* return when there are none, the two counters
CallRefresh(date) ==
    /\ hass.phase = "service"
    /\ hass.service.phase # "running"
    /\ hass' = [hass EXCEPT !.service =
                  [NoService EXCEPT !.phase = IF hass.loaded = <<>> THEN "returned"
                                              ELSE "running",
                                    !.target_datetime = date,
                                    !.instances = hass.loaded]]
    /\ UNCHANGED <<fetcher, parse, hourly, legacy, coordinator>>

\* handle_refresh_data, the next pass of the loop; refresh_data returns or
\* raises (it logs and re-raises every Exception of get_prices)
RefreshNext(outcome) ==
    /\ hass.phase = "service"
    /\ hass.service.phase = "running"
    /\ Len(hass.service.attempted) < Len(hass.service.instances)
    /\ hass' = [hass EXCEPT !.service =
                  AfterRefresh(@, @.instances[Len(@.attempted) + 1], outcome)]
    /\ UNCHANGED <<fetcher, parse, hourly, legacy, coordinator>>

\* handle_refresh_data after the loop: the summary is logged, the handler returns
RefreshReturns ==
    /\ hass.phase = "service"
    /\ hass.service.phase = "running"
    /\ Len(hass.service.attempted) = Len(hass.service.instances)
    /\ hass' = [hass EXCEPT !.service.phase = "returned"]
    /\ UNCHANGED <<fetcher, parse, hourly, legacy, coordinator>>

InitRefresh ==
    /\ FetcherInit
    /\ parse = NoParse
    /\ hourly = NoHourly
    /\ legacy = NoLegacy
    /\ coordinator = NoCoordinator
    /\ hass = [NoHass EXCEPT !.phase = "service"]

NextRefresh ==
    \/ \E entry \in EntryIds : LoadEntry(entry)
    \/ \E entry \in EntryIds : UnloadEntry(entry)
    \/ \E date \in ServiceDates : CallRefresh(date)
    \/ \E outcome \in {"ok", "raise"} : RefreshNext(outcome)
    \/ RefreshReturns

SpecRefresh == InitRefresh /\ [][NextRefresh]_vars

\* C37: the service calls refresh_data(bypass_cache=True) on the instances it
\* found, each once and in their order, whether earlier ones raised or not;
\* no exception of an instance leaves the handler; every attempt is counted
\* once, as a success or as a failure, and when the handler returns
\* success_count + failed_count is the number of instances.
C37_EveryInstanceIsRefreshed ==
    LET s == hass.service
    IN /\ s.phase # "raised"
       /\ Len(s.attempted) <= Len(s.instances)
       /\ \A i \in 1..Len(s.attempted) :
             /\ s.attempted[i].coord = s.instances[i]
             /\ s.attempted[i].bypass_cache
             /\ s.attempted[i].target_date = s.target_datetime
       /\ s.success_count + s.failed_count = Len(s.attempted)
       /\ s.failed_count = Cardinality(s.raised)
       /\ s.phase = "returned"
            => /\ Len(s.attempted) = Len(s.instances)
               /\ s.success_count + s.failed_count = Len(s.instances)

C37_Witness ==
    LET s == hass.service
    IN /\ s.phase = "returned"
       /\ Len(s.instances) = 3
       /\ s.raised = {s.instances[1]}
       /\ s.success_count = 2
       /\ s.failed_count = 1

=============================================================================
